---- MODULE Spec2Model ----
(***************************************************************************)
(* State-machine model of apps/server/src/mediasoup-server.ts: the         *)
(* signaling server's registries (rooms, peerSocketMap, peerRoomMap), the  *)
(* MyRoom / MyPeer objects, the media-worker handles they own, and the     *)
(* asynchronous message handlers of one WebSocket connection.              *)
(*                                                                         *)
(* Objects of the JavaScript heap are numbered: a MyRoom object is the     *)
(* index of its router in roomObjs, a MyPeer object is an index of peers,  *)
(* a worker handle is an index of transports / producers / consumers, so   *)
(* that a reference kept in a local variable or a closure is distinguished *)
(* from the object the registry currently maps a name to.                  *)
(*                                                                         *)
(* A handler is a task; its pc is the await it is suspended at.  An await  *)
(* on a media-worker call is resumed by the worker's response, which may   *)
(* arrive after any other event.  An await on an already settled promise   *)
(* (createRoom returning the registered room, the return of createRoom or  *)
(* createPeer) is resumed by a microtask: the event loop drains microtasks *)
(* before it takes the next socket event, so no frame of another           *)
(* connection and no close event is handled while such a continuation is   *)
(* ready.                                                                  *)
(***************************************************************************)
EXTENDS Integers, Sequences, FiniteSets, TLC

ConnOrder == <<"c1", "c2">>
PeerOrder == <<"p1", "p2">>
RoomOrder == <<"r1", "r2">>

Range(f) == {f[i] : i \in DOMAIN f}

Conns == Range(ConnOrder)
PeerIds == Range(PeerOrder)
RoomIds == Range(RoomOrder)
Directions == {"send", "recv"}
Kinds == {"audio", "video"}
\* data.kind as a client may send it: a kind mediasoup accepts, or another
KindInputs == Kinds \cup {"data"}

\* Frames received by the server in one run.
MaxReq == 3

\* Frames received in a run that starts with two peers in a room.
MaxMedia == 4

NoId == "-"

VARIABLES
  rooms,          \* const rooms: roomId -> MyRoom object (0: absent)
  peerSocketMap,  \* WebSocket -> peerId
  peerRoomMap,    \* peerId -> roomId
  roomObjs,       \* routers created by the worker, each with its MyRoom object
  peers,          \* MyPeer objects
  transports,     \* WebRtcTransport handles
  producers,      \* Producer handles with their MyProducer record
  consumers,      \* Consumer handles with their MyConsumer record
  ws,             \* ws.readyState === OPEN, per connection
  outbox,         \* frames sent on each connection, in order
  tasks,          \* message handlers suspended at an await
  nreq,           \* frames received so far, per connection
  limit,          \* frames the run may receive in all
  wq,             \* requests the worker has not answered yet, oldest first
  turn,           \* the event whose microtasks are being drained
  hist,           \* history: cleanupPeer invocations that returned early
  used            \* history: the connections and the ids the clients have used

vars == <<rooms, peerSocketMap, peerRoomMap, roomObjs, peers, transports,
          producers, consumers, ws, outbox, tasks, nreq, limit, wq, turn, hist, used>>

\* The program state a handler reads and writes, as one record.
Cur ==
  [rooms |-> rooms, peerSocketMap |-> peerSocketMap, peerRoomMap |-> peerRoomMap,
   roomObjs |-> roomObjs, peers |-> peers, transports |-> transports,
   producers |-> producers, consumers |-> consumers, ws |-> ws, outbox |-> outbox]

Commit(W) ==
  /\ rooms' = W.rooms
  /\ peerSocketMap' = W.peerSocketMap
  /\ peerRoomMap' = W.peerRoomMap
  /\ roomObjs' = W.roomObjs
  /\ peers' = W.peers
  /\ transports' = W.transports
  /\ producers' = W.producers
  /\ consumers' = W.consumers
  /\ ws' = W.ws
  /\ outbox' = W.outbox

------------------------------------------------------------------------------
\* Frames

Frame(t, req, peer, prod, obj) ==
  [t |-> t, req |-> req, peer |-> peer, prod |-> prod, obj |-> obj,
   peers |-> {}, prods |-> {}, err |-> ""]

ErrorFrame(req, msg) == [Frame("error", req, NoId, 0, 0) EXCEPT !.err = msg]

Rep(f, n) == [i \in 1..n |-> f]

\* ws.send(...) on the requesting socket; a send on a socket that is no longer
\* open delivers nothing.
SendTo(W, c, f) ==
  IF W.ws[c] THEN [W EXCEPT !.outbox[c] = Append(@, f)] ELSE W

\* A variant that does not test readyState: it sends to every recipient.
BroadcastUnchecked(W, recips, f) ==
  [W EXCEPT !.outbox = [c \in Conns |->
     W.outbox[c] \o Rep(f, Cardinality({i \in recips : W.peers[i].ws = c}))]]

\* Object.values(room.peers).forEach(p => if (p.ws.readyState === OPEN) p.ws.send(f))
\* over the peer objects recips: one frame per recipient object.
Broadcast(W, recips, f) ==
  [W EXCEPT !.outbox = [c \in Conns |->
     IF W.ws[c]
       THEN W.outbox[c] \o Rep(f, Cardinality({i \in recips : W.peers[i].ws = c}))
       ELSE W.outbox[c]]]

\* Object.values(room.peers)
RoomPeers(W, r) == {W.roomObjs[r].peers[p] : p \in PeerIds} \ {0}

\* Object.values(room.peers).filter(p => p.id !== peerId)
OtherPeers(W, r, pid) == {W.roomObjs[r].peers[p] : p \in PeerIds \ {pid}} \ {0}

------------------------------------------------------------------------------
\* Media-worker handles

\* The elements of the finite set of numbers S in increasing order.
RECURSIVE SortedSeq(_)
SortedSeq(S) ==
  IF S = {} THEN <<>>
  ELSE LET m == CHOOSE x \in S : \A y \in S : x <= y
       IN <<m>> \o SortedSeq(S \ {m})

\* producer.close()
CloseProducer(W, x) == [W EXCEPT !.producers[x].closed = TRUE]

\* consumer.close()
CloseConsumer(W, k) == [W EXCEPT !.consumers[k].closed = TRUE]

\* producer.on("transportclose"): evict the record from the captured peer and
\* notify the other peers of the captured room.
OnProducerTransportClose(W, x) ==
  LET o == W.producers[x].owner
      W1 == [W EXCEPT !.producers[x].closed = TRUE,
                      !.peers[o].producers = @ \ {x}]
  IN Broadcast(W1, OtherPeers(W1, W.producers[x].room, W1.peers[o].id),
               Frame("producerClosed", 0, W1.peers[o].id, x, o))

\* consumer.on("transportclose"): peer.consumers.delete(myProducer.id)
OnConsumerTransportClose(W, k) ==
  LET o == W.consumers[k].owner
  IN [W EXCEPT !.consumers[k].closed = TRUE,
               !.peers[o].consumers =
                  {e \in @ : e.producerId # W.consumers[k].producerId}]

RECURSIVE FoldProducers(_, _)
FoldProducers(W, xs) ==
  IF xs = <<>> THEN W ELSE FoldProducers(OnProducerTransportClose(W, Head(xs)), Tail(xs))

RECURSIVE FoldConsumers(_, _)
FoldConsumers(W, ks) ==
  IF ks = <<>> THEN W ELSE FoldConsumers(OnConsumerTransportClose(W, Head(ks)), Tail(ks))

\* transport.close(): the transport and every producer and consumer still
\* open on it are closed, each emitting "transportclose".
CloseTransport(W, t) ==
  IF W.transports[t].closed THEN W
  ELSE LET W1 == [W EXCEPT !.transports[t].closed = TRUE]
           xs == {x \in 1..Len(W.producers) :
                    W.producers[x].transport = t /\ ~W.producers[x].closed}
           ks == {k \in 1..Len(W.consumers) :
                    W.consumers[k].transport = t /\ ~W.consumers[k].closed}
       IN FoldConsumers(FoldProducers(W1, SortedSeq(xs)), SortedSeq(ks))

RECURSIVE FoldTransports(_, _)
FoldTransports(W, ts) ==
  IF ts = <<>> THEN W ELSE FoldTransports(CloseTransport(W, Head(ts)), Tail(ts))

\* router.close(): closes the router's transports and its RTP observers.
CloseRouter(W, r) ==
  IF W.roomObjs[r].routerClosed THEN W
  ELSE LET W1 == [W EXCEPT !.roomObjs[r].routerClosed = TRUE,
                           !.roomObjs[r].observer =
                              IF @ = "open" THEN "closed" ELSE @]
           ts == {t \in 1..Len(W.transports) : W.transports[t].router = r}
       IN FoldTransports(W1, SortedSeq(ts))

------------------------------------------------------------------------------
\* Registry lookups

\* A variant that resolves the socket to the last peer created for it, whether
\* or not the registries and a room still hold that peer.
getPeerFromSocketUnchecked(W, c) ==
  LET own == {o \in 1..Len(W.peers) : W.peers[o].ws = c}
  IN IF own = {} THEN 0 ELSE CHOOSE o \in own : \A q \in own : q <= o

\* getPeerFromSocket(ws): the peer object, or 0
getPeerFromSocket(W, c) ==
  LET peerId == W.peerSocketMap[c]
  IN IF peerId = NoId THEN 0
     ELSE LET roomId == W.peerRoomMap[peerId]
          IN IF roomId = NoId THEN 0
             ELSE IF W.rooms[roomId] = 0 THEN 0
             ELSE W.roomObjs[W.rooms[roomId]].peers[peerId]

\* getRoom(roomId): the room object, or 0
getRoom(W, roomId) == IF roomId = NoId THEN 0 ELSE W.rooms[roomId]

\* The peer object cleanupPeer(peerId) resolves, or 0 when it returns early.
CleanupTarget(W, peerId) ==
  LET roomId == W.peerRoomMap[peerId]
  IN IF roomId = NoId THEN 0
     ELSE IF W.rooms[roomId] = 0 THEN 0
     ELSE W.roomObjs[W.rooms[roomId]].peers[peerId]

RECURSIVE CloseProducersNotify(_, _, _, _, _)
\* peer.producers.forEach: close the producer, then send producerClosed to the
\* room's other open peers.
CloseProducersNotify(W, xs, room, peerId, o) ==
  IF xs = <<>> THEN W
  ELSE CloseProducersNotify(
         Broadcast(CloseProducer(W, Head(xs)), OtherPeers(W, room, peerId),
                   Frame("producerClosed", 0, peerId, Head(xs), o)),
         Tail(xs), room, peerId, o)

RECURSIVE CloseConsumers(_, _)
\* peer.consumers.forEach(c => c.consumer.close())
CloseConsumers(W, ks) ==
  IF ks = <<>> THEN W ELSE CloseConsumers(CloseConsumer(W, Head(ks)), Tail(ks))

\* if (peer.sendTransport) close(); if (peer.recvTransport) close()
ClosePeerTransports(W, o) ==
  LET W1 == IF W.peers[o].sendTransport # 0
              THEN CloseTransport(W, W.peers[o].sendTransport) ELSE W
  IN IF W1.peers[o].recvTransport # 0
       THEN CloseTransport(W1, W1.peers[o].recvTransport) ELSE W1

\* A variant that forgets peerRoomMap and room.peers: the peer stays findable.
RemoveFromMapsKeepsPeer(W, room, peerId, o) ==
  [W EXCEPT !.peerSocketMap[W.peers[o].ws] = NoId]

\* peerSocketMap.delete(peer.ws); peerRoomMap.delete(peerId); delete room.peers[peerId]
RemoveFromMaps(W, room, peerId, o) ==
  [W EXCEPT !.peerSocketMap[W.peers[o].ws] = NoId,
            !.peerRoomMap[peerId] = NoId,
            !.roomObjs[room].peers[peerId] = 0]

\* A variant that closes the router of the empty room but keeps it registered.
CleanupEmptyRoomKeepsRegistry(W, room, roomId) ==
  IF RoomPeers(W, room) = {} THEN CloseRouter(W, room) ELSE W

\* if (Object.keys(room.peers).length === 0) { room.router.close(); delete rooms[roomId] }
CleanupEmptyRoom(W, room, roomId) ==
  IF RoomPeers(W, room) = {}
    THEN [CloseRouter(W, room) EXCEPT !.rooms[roomId] = 0]
    ELSE W

\* A variant that announces peerLeft before it closes the peer's producers.
cleanupPeerLeftFirst(W, peerId) ==
  LET o == CleanupTarget(W, peerId)
  IN IF o = 0 THEN W
     ELSE
       LET roomId == W.peerRoomMap[peerId]
           room == W.rooms[roomId]
           W0 == Broadcast(W, OtherPeers(W, room, peerId),
                           Frame("peerLeft", 0, peerId, 0, o))
           W1 == CloseProducersNotify(W0, SortedSeq(W.peers[o].producers),
                                      room, peerId, o)
           W2 == CloseConsumers(W1, SortedSeq({e.id : e \in W1.peers[o].consumers}))
           W3 == ClosePeerTransports(W2, o)
           W4 == RemoveFromMaps(W3, room, peerId, o)
           W6 == CleanupEmptyRoom(W4, room, roomId)
       IN [W6 EXCEPT !.peers[o].torn = @ + 1,
                     !.peers[o].tornAt =
                        <<Len(W.transports), Len(W.producers), Len(W.consumers)>>]

\* cleanupPeer(peerId)
cleanupPeer(W, peerId) ==
  LET o == CleanupTarget(W, peerId)
  IN IF o = 0 THEN W
     ELSE
       LET roomId == W.peerRoomMap[peerId]
           room == W.rooms[roomId]
           W1 == CloseProducersNotify(W, SortedSeq(W.peers[o].producers),
                                      room, peerId, o)
           W2 == CloseConsumers(W1, SortedSeq({e.id : e \in W1.peers[o].consumers}))
           W3 == ClosePeerTransports(W2, o)
           W4 == RemoveFromMaps(W3, room, peerId, o)
           W5 == Broadcast(W4, RoomPeers(W4, room), Frame("peerLeft", 0, peerId, 0, o))
           W6 == CleanupEmptyRoom(W5, room, roomId)
       IN [W6 EXCEPT !.peers[o].torn = @ + 1,
                     !.peers[o].tornAt =
                        <<Len(W.transports), Len(W.producers), Len(W.consumers)>>]

------------------------------------------------------------------------------
\* Tasks: a message handler suspended at an await

NewTask(c, type) ==
  [req |-> nreq[c] + 1, conn |-> c, type |-> type, pc |-> "start", ctx |-> "handler",
   roomId |-> NoId, peerId |-> NoId, ret |-> 0, room |-> 0, router |-> 0,
   peer |-> 0, dir |-> NoId, kind |-> NoId, prod |-> 0, tr |-> 0, ok |-> TRUE]

ReadyPcs == {"cr_ret", "cp_ret"}

ReadyIn(T) == {t \in T : t.pc \in ReadyPcs}

\* The names are interchangeable: a client that uses a name nobody used before
\* takes the first unused one of its kind.
NameOK(x, order) ==
  \A i \in DOMAIN order : order[i] = x => \A j \in 1..(i - 1) : order[j] \in used

RECURSIVE SumOver(_, _)
SumOver(f, S) ==
  IF S = {} THEN 0
  ELSE LET x == CHOOSE y \in S : TRUE IN f[x] + SumOver(f, S \ {x})

Received == SumOver(nreq, Conns)

\* A frame of connection c is dispatched: c is open, and no continuation is
\* ready unless it was made ready by an earlier frame of the same chunk.
CanRecv(c) ==
  /\ ws[c]
  /\ NameOK(c, ConnOrder)
  /\ Received < limit
  /\ ReadyIn(tasks) # {} => turn = c

WorkerPcs == {"cr_router", "cr_observer", "tr_wait", "cn_wait", "pr_wait", "co_wait",
              "pa_wait", "re_wait"}

Key(t) == <<t.conn, t.req>>

\* The worker answers its requests in the order it received them.
WorkerQueue(q, t) == IF t.pc \in WorkerPcs THEN Append(q, Key(t)) ELSE q

\* A worker event is dispatched.
CanResume == ReadyIn(tasks) # {} => turn = "worker"

\* The worker's response to the request task t awaits is dispatched.
Answers(t) == CanResume /\ wq # <<>> /\ Head(wq) = Key(t)

\* A close event is dispatched only once the microtask queue is empty.
CanClose(c) == ws[c] /\ NameOK(c, ConnOrder) /\ ReadyIn(tasks) = {}

TurnAfter(T, who) == IF ReadyIn(T) = {} THEN "idle" ELSE who

\* createRoom(roomId), up to its first await or its return.
CallCreateRoom(W, t) ==
  IF W.rooms[t.roomId] # 0
    THEN [t EXCEPT !.pc = "cr_ret", !.ret = W.rooms[t.roomId]]
    ELSE [t EXCEPT !.pc = "cr_router"]

------------------------------------------------------------------------------
\* createRoom / joinRoom

NewRoomObj(roomId) ==
  [id |-> roomId, routerClosed |-> FALSE, observer |-> "none",
   peers |-> [p \in PeerIds |-> 0]]

\* A MyPeer object.  torn and tornAt are history: how often cleanupPeer tore the
\* peer down, and how many transports, producers and consumers existed then.
NewPeer(peerId, c) ==
  [id |-> peerId, ws |-> c, connectionState |-> "new",
   sendTransport |-> 0, recvTransport |-> 0,
   producers |-> {}, consumers |-> {}, torn |-> 0, tornAt |-> <<0, 0, 0>>]

\* ws.on("message") with data.type = "createRoom": await createRoom(roomId)
RecvCreateRoom(c, roomId) ==
  /\ CanRecv(c)
  /\ NameOK(roomId, RoomOrder)
  /\ used' = used \cup {c, roomId}
  /\ LET t == CallCreateRoom(Cur, [NewTask(c, "createRoom") EXCEPT !.roomId = roomId])
     IN /\ tasks' = tasks \cup {t}
        /\ wq' = WorkerQueue(wq, t)
        /\ turn' = TurnAfter(tasks', c)
  /\ nreq' = [nreq EXCEPT ![c] = @ + 1]
  /\ UNCHANGED <<rooms, peerSocketMap, peerRoomMap, roomObjs, peers, transports,
                 producers, consumers, ws, outbox, limit, hist>>

\* ws.on("message") with data.type = "joinRoom": const room = await createRoom(roomId)
RecvJoinRoom(c, roomId, peerId) ==
  /\ CanRecv(c)
  /\ NameOK(roomId, RoomOrder)
  /\ NameOK(peerId, PeerOrder)
  /\ used' = used \cup {c, roomId, peerId}
  /\ LET t == CallCreateRoom(Cur, [NewTask(c, "joinRoom") EXCEPT
                                     !.roomId = roomId, !.peerId = peerId,
                                     !.ctx = "join"])
     IN /\ tasks' = tasks \cup {t}
        /\ wq' = WorkerQueue(wq, t)
        /\ turn' = TurnAfter(tasks', c)
  /\ nreq' = [nreq EXCEPT ![c] = @ + 1]
  /\ UNCHANGED <<rooms, peerSocketMap, peerRoomMap, roomObjs, peers, transports,
                 producers, consumers, ws, outbox, limit, hist>>

\* createRoom: globalWorker.createRouter(...) resolves
RouterCreated(t) ==
  /\ t.pc = "cr_router"
  /\ Answers(t)
  /\ wq' = Append(Tail(wq), Key(t))
  /\ roomObjs' = Append(roomObjs, NewRoomObj(t.roomId))
  /\ tasks' = (tasks \ {t}) \cup
                {[t EXCEPT !.pc = "cr_observer", !.router = Len(roomObjs) + 1]}
  /\ turn' = TurnAfter(tasks', "worker")
  /\ UNCHANGED <<rooms, peerSocketMap, peerRoomMap, peers, transports,
                 producers, consumers, ws, outbox, nreq, limit, hist, used>>

\* createRoom: router.createAudioLevelObserver(...) resolves; the room object
\* is built and registered: rooms[roomId] = room; return room
ObserverCreated(t) ==
  /\ t.pc = "cr_observer"
  /\ Answers(t)
  /\ wq' = Tail(wq)
  /\ roomObjs' = [roomObjs EXCEPT ![t.router].observer = "open"]
  /\ rooms' = [rooms EXCEPT ![t.roomId] = t.router]
  /\ tasks' = (tasks \ {t}) \cup {[t EXCEPT !.pc = "cr_ret", !.ret = t.router]}
  /\ turn' = TurnAfter(tasks', "worker")
  /\ UNCHANGED <<peerSocketMap, peerRoomMap, peers, transports,
                 producers, consumers, ws, outbox, nreq, limit, hist, used>>

\* case "createRoom" after the await: send createRoomResponse
CreateRoomRespond(t) ==
  /\ t.pc = "cr_ret" /\ t.ctx = "handler"
  /\ Commit(SendTo(Cur, t.conn, Frame("createRoomResponse", t.req, NoId, 0, 0)))
  /\ tasks' = tasks \ {t}
  /\ turn' = TurnAfter(tasks', turn)
  /\ UNCHANGED <<nreq, limit, wq, hist, used>>

\* case "joinRoom" after its first await: the handler keeps room and calls
\* createPeer, which starts with: const room = await createRoom(roomId)
JoinCallsCreatePeer(t) ==
  /\ t.pc = "cr_ret" /\ t.ctx = "join"
  /\ LET u == CallCreateRoom(Cur, [t EXCEPT !.room = t.ret, !.ctx = "peer"])
     IN /\ tasks' = (tasks \ {t}) \cup {u}
        /\ wq' = WorkerQueue(wq, u)
  /\ turn' = TurnAfter(tasks', turn)
  /\ UNCHANGED <<rooms, peerSocketMap, peerRoomMap, roomObjs, peers, transports,
                 producers, consumers, ws, outbox, nreq, limit, hist, used>>

\* createPeer after its await: build the peer, room.peers[peerId] = peer,
\* peerSocketMap.set(ws, peerId), peerRoomMap.set(peerId, roomId)
AttachPeer(W, room, roomId, peerId, c) ==
  [W EXCEPT !.peers = Append(@, NewPeer(peerId, c)),
            !.roomObjs[room].peers[peerId] = Len(W.peers) + 1,
            !.peerSocketMap[c] = peerId,
            !.peerRoomMap[peerId] = roomId]

CreatePeerAttaches(t) ==
  /\ t.pc = "cr_ret" /\ t.ctx = "peer"
  /\ Commit(AttachPeer(Cur, t.ret, t.roomId, t.peerId, t.conn))
  /\ tasks' = (tasks \ {t}) \cup
                {[t EXCEPT !.pc = "cp_ret", !.peer = Len(peers) + 1]}
  /\ turn' = TurnAfter(tasks', turn)
  /\ UNCHANGED <<nreq, limit, wq, hist, used>>

\* existingProducers: {id, peerId} of every producer of the other peers of room
ExistingProducers(W, room, peerId) ==
  {<<e[1], W.peers[e[2]].id>> :
     e \in {e \in (1..Len(W.producers)) \X OtherPeers(W, room, peerId) :
              e[1] \in W.peers[e[2]].producers}}

\* peers: {id, connectionState} of the other peers of room
OtherPeerStates(W, room, peerId) ==
  {<<W.peers[o].id, W.peers[o].connectionState>> : o \in OtherPeers(W, room, peerId)}

\* case "joinRoom" after await createPeer: lines 330-380
JoinRoomRest(W, t) ==
  LET W1 == [W EXCEPT !.peers[t.peer].connectionState = "connecting"]
      W2 == Broadcast(W1, OtherPeers(W1, t.room, t.peerId),
                      Frame("peerJoined", 0, t.peerId, 0, t.peer))
      W3 == SendTo(W2, t.conn,
                   [Frame("joinRoomResponse", t.req, t.peerId, 0, t.room) EXCEPT
                      !.peers = OtherPeerStates(W2, t.room, t.peerId),
                      !.prods = ExistingProducers(W1, t.room, t.peerId)])
  IN [W3 EXCEPT !.peers[t.peer].connectionState = "connected"]

JoinRoomFinish(t) ==
  /\ t.pc = "cp_ret"
  /\ Commit(JoinRoomRest(Cur, t))
  /\ tasks' = tasks \ {t}
  /\ turn' = TurnAfter(tasks', turn)
  /\ UNCHANGED <<nreq, limit, wq, hist, used>>

------------------------------------------------------------------------------
\* ws.on("close")

CloseHandler(W, c) ==
  LET peerId == W.peerSocketMap[c]
  IN IF peerId # NoId THEN cleanupPeer(W, peerId) ELSE W

Close(c) ==
  /\ CanClose(c)
  /\ used' = used \cup {c}
  /\ Commit(CloseHandler([Cur EXCEPT !.ws[c] = FALSE], c))
  /\ hist' = IF peerSocketMap[c] # NoId /\ CleanupTarget(Cur, peerSocketMap[c]) = 0
               THEN hist + 1 ELSE hist
  /\ UNCHANGED <<tasks, nreq, limit, wq, turn>>

------------------------------------------------------------------------------
\* createWebRtcTransport

NewTransport(router, o, dir) ==
  [router |-> router, closed |-> FALSE, owner |-> o, dir |-> dir, connected |-> FALSE]

\* case "createWebRtcTransport" up to await room.router.createWebRtcTransport
RecvCreateTransport(c, dir) ==
  /\ CanRecv(c)
  /\ used' = used \cup {c}
  /\ nreq' = [nreq EXCEPT ![c] = @ + 1]
  /\ LET t0 == [NewTask(c, "createWebRtcTransport") EXCEPT !.dir = dir]
         o == getPeerFromSocket(Cur, c)
         room == IF o = 0 THEN 0 ELSE getRoom(Cur, peerRoomMap[peers[o].id])
     IN IF o = 0
          THEN /\ Commit(SendTo(Cur, c, ErrorFrame(t0.req, "Peer not found")))
               /\ UNCHANGED <<tasks, wq, turn>>
          ELSE IF room = 0
          THEN /\ Commit(SendTo(Cur, c, ErrorFrame(t0.req, "Room not found")))
               /\ UNCHANGED <<tasks, wq, turn>>
          ELSE /\ tasks' = tasks \cup
                    {[t0 EXCEPT !.pc = "tr_wait", !.peer = o, !.room = room,
                                !.ok = ~roomObjs[room].routerClosed]}
               /\ wq' = Append(wq, <<c, t0.req>>)
               /\ turn' = TurnAfter(tasks', c)
               /\ UNCHANGED <<rooms, peerSocketMap, peerRoomMap, roomObjs, peers,
                              transports, producers, consumers, ws, outbox>>
  /\ UNCHANGED <<limit, hist>>

\* the transport is stored on the captured peer and described to the client
StoreTransport(W, t) ==
  LET id == Len(W.transports) + 1
      W1 == [W EXCEPT !.transports = Append(@, NewTransport(t.room, t.peer, t.dir))]
      W2 == IF t.dir = "recv"
              THEN [W1 EXCEPT !.peers[t.peer].recvTransport = id]
              ELSE [W1 EXCEPT !.peers[t.peer].sendTransport = id]
  IN SendTo(W2, t.conn, Frame("createWebRtcTransportResponse", t.req, NoId, 0, id))

\* A variant whose catch swallows the error without answering.
RejectedSilently(W, t) == W

\* catch (error): ws.send({reqId, error: error.message})
Rejected(W, t) == SendTo(W, t.conn, ErrorFrame(t.req, "worker"))

\* room.router.createWebRtcTransport(...) resolves
TransportCreated(t) ==
  /\ t.pc = "tr_wait"
  /\ Answers(t)
  /\ wq' = Tail(wq)
  /\ Commit(IF t.ok THEN StoreTransport(Cur, t) ELSE Rejected(Cur, t))
  /\ tasks' = tasks \ {t}
  /\ turn' = TurnAfter(tasks', "worker")
  /\ UNCHANGED <<nreq, limit, hist, used>>

------------------------------------------------------------------------------
\* produce

NewProducer(tr, kind, o, room) ==
  [transport |-> tr, kind |-> kind, closed |-> FALSE, owner |-> o, room |-> room,
   paused |-> FALSE, recPaused |-> FALSE,
   source |-> IF kind = "audio" THEN "mic" ELSE "webcam",
   observed |-> kind = "audio"]

\* A variant that produces on the recv transport when the peer has no send
\* transport.
RecvProduceAnyTransport(c, kind) ==
  /\ CanRecv(c)
  /\ used' = used \cup {c}
  /\ nreq' = [nreq EXCEPT ![c] = @ + 1]
  /\ LET t0 == [NewTask(c, "produce") EXCEPT !.kind = kind]
         o == getPeerFromSocket(Cur, c)
         tr == IF o = 0 THEN 0
               ELSE IF peers[o].sendTransport # 0 THEN peers[o].sendTransport
               ELSE peers[o].recvTransport
         room == IF o = 0 THEN 0 ELSE getRoom(Cur, peerRoomMap[peers[o].id])
     IN IF tr = 0 \/ room = 0 \/ kind \notin Kinds
          THEN /\ Commit(SendTo(Cur, c, ErrorFrame(t0.req, "Peer or transport not found")))
               /\ UNCHANGED <<tasks, wq, turn>>
          ELSE /\ tasks' = tasks \cup
                    {[t0 EXCEPT !.pc = "pr_wait", !.peer = o, !.room = room, !.tr = tr,
                                !.ok = ~transports[tr].closed]}
               /\ wq' = Append(wq, <<c, t0.req>>)
               /\ turn' = TurnAfter(tasks', c)
               /\ UNCHANGED <<rooms, peerSocketMap, peerRoomMap, roomObjs, peers,
                              transports, producers, consumers, ws, outbox>>
  /\ UNCHANGED <<limit, hist>>

\* case "produce" up to await peer.sendTransport.produce(...); produce() rejects
\* a kind that is neither audio nor video before it calls the worker, and the
\* handler's catch answers with the error.
RecvProduce(c, kind) ==
  /\ CanRecv(c)
  /\ used' = used \cup {c}
  /\ nreq' = [nreq EXCEPT ![c] = @ + 1]
  /\ LET t0 == [NewTask(c, "produce") EXCEPT !.kind = kind]
         o == getPeerFromSocket(Cur, c)
         room == IF o = 0 THEN 0 ELSE getRoom(Cur, peerRoomMap[peers[o].id])
     IN IF o = 0 \/ (o # 0 /\ peers[o].sendTransport = 0)
          THEN /\ Commit(SendTo(Cur, c, ErrorFrame(t0.req, "Peer or transport not found")))
               /\ UNCHANGED <<tasks, wq, turn>>
          ELSE IF room = 0
          THEN /\ Commit(SendTo(Cur, c, ErrorFrame(t0.req, "Room not found")))
               /\ UNCHANGED <<tasks, wq, turn>>
          ELSE IF kind \notin Kinds
          THEN /\ Commit(Rejected(Cur, t0))
               /\ UNCHANGED <<tasks, wq, turn>>
          ELSE /\ tasks' = tasks \cup
                    {[t0 EXCEPT !.pc = "pr_wait", !.peer = o, !.room = room,
                                !.tr = peers[o].sendTransport,
                                !.ok = ~transports[peers[o].sendTransport].closed]}
               /\ wq' = Append(wq, <<c, t0.req>>)
               /\ turn' = TurnAfter(tasks', c)
               /\ UNCHANGED <<rooms, peerSocketMap, peerRoomMap, roomObjs, peers,
                              transports, producers, consumers, ws, outbox>>
  /\ UNCHANGED <<limit, hist>>

\* A variant that announces every producer its owner holds, not only the new one.
ProduceRestAnnouncesAll(W, t) ==
  LET x == Len(W.producers) + 1
      W1 == [W EXCEPT !.producers = Append(@, NewProducer(t.tr, t.kind, t.peer, t.room)),
                      !.peers[t.peer].producers = @ \cup {x}]
      W2 == SendTo(W1, t.conn, Frame("produceResponse", t.req, NoId, x, 0))
      W3 == IF W.peers[t.peer].producers = {} THEN W2
            ELSE Broadcast(W2, OtherPeers(W2, t.room, W2.peers[t.peer].id),
                           Frame("newProducer", 0, W2.peers[t.peer].id,
                                 CHOOSE y \in W.peers[t.peer].producers : TRUE, t.peer))
  IN Broadcast(W3, OtherPeers(W3, t.room, W3.peers[t.peer].id),
               Frame("newProducer", 0, W3.peers[t.peer].id, x, t.peer))

\* A variant that announces the new producer to every peer of the room, its
\* owner included.
ProduceRestAnnouncesToAll(W, t) ==
  LET x == Len(W.producers) + 1
      W1 == [W EXCEPT !.producers = Append(@, NewProducer(t.tr, t.kind, t.peer, t.room)),
                      !.peers[t.peer].producers = @ \cup {x}]
      W2 == SendTo(W1, t.conn, Frame("produceResponse", t.req, NoId, x, 0))
  IN Broadcast(W2, RoomPeers(W2, t.room),
               Frame("newProducer", 0, W2.peers[t.peer].id, x, t.peer))

\* case "produce" after the await: lines 519-594
ProduceRest(W, t) ==
  LET x == Len(W.producers) + 1
      W1 == [W EXCEPT !.producers = Append(@, NewProducer(t.tr, t.kind, t.peer, t.room)),
                      !.peers[t.peer].producers = @ \cup {x}]
      W2 == SendTo(W1, t.conn, Frame("produceResponse", t.req, NoId, x, 0))
  IN Broadcast(W2, OtherPeers(W2, t.room, W2.peers[t.peer].id),
               Frame("newProducer", 0, W2.peers[t.peer].id, x, t.peer))

\* peer.sendTransport.produce(...) resolves
ProducerCreated(t) ==
  /\ t.pc = "pr_wait"
  /\ Answers(t)
  /\ wq' = Tail(wq)
  /\ Commit(IF t.ok THEN ProduceRest(Cur, t) ELSE Rejected(Cur, t))
  /\ tasks' = tasks \ {t}
  /\ turn' = TurnAfter(tasks', "worker")
  /\ UNCHANGED <<nreq, limit, hist, used>>

------------------------------------------------------------------------------
\* connectWebRtcTransport and the default case

\* case "connectWebRtcTransport" up to await transport.connect(...)
RecvConnectTransport(c, dir) ==
  /\ CanRecv(c)
  /\ used' = used \cup {c}
  /\ nreq' = [nreq EXCEPT ![c] = @ + 1]
  /\ LET t0 == [NewTask(c, "connectWebRtcTransport") EXCEPT !.dir = dir]
         o == getPeerFromSocket(Cur, c)
         tr == IF o = 0 THEN 0
               ELSE IF dir = "recv" THEN peers[o].recvTransport
               ELSE peers[o].sendTransport
     IN IF o = 0
          THEN /\ Commit(SendTo(Cur, c, ErrorFrame(t0.req, "Peer not found")))
               /\ UNCHANGED <<tasks, wq, turn>>
          ELSE IF tr = 0
          THEN /\ Commit(SendTo(Cur, c, ErrorFrame(t0.req, "Transport not found")))
               /\ UNCHANGED <<tasks, wq, turn>>
          ELSE /\ tasks' = tasks \cup
                    {[t0 EXCEPT !.pc = "cn_wait", !.peer = o, !.tr = tr,
                                !.ok = ~transports[tr].closed]}
               /\ wq' = Append(wq, <<c, t0.req>>)
               /\ turn' = TurnAfter(tasks', c)
               /\ UNCHANGED <<rooms, peerSocketMap, peerRoomMap, roomObjs, peers,
                              transports, producers, consumers, ws, outbox>>
  /\ UNCHANGED <<limit, hist>>

\* transport.connect(...) settles: the worker rejects the connect of a closed
\* transport and a second connect of the same transport
ConnectRest(W, t) ==
  IF t.ok /\ ~W.transports[t.tr].connected
    THEN SendTo([W EXCEPT !.transports[t.tr].connected = TRUE], t.conn,
                Frame("connectWebRtcTransportResponse", t.req, NoId, 0, t.tr))
    ELSE Rejected(W, t)

TransportConnected(t) ==
  /\ t.pc = "cn_wait"
  /\ Answers(t)
  /\ wq' = Tail(wq)
  /\ Commit(ConnectRest(Cur, t))
  /\ tasks' = tasks \ {t}
  /\ turn' = TurnAfter(tasks', "worker")
  /\ UNCHANGED <<nreq, limit, hist, used>>

\* A variant that treats a frame of an unknown type as fatal: it answers and
\* then tears the connection's peer down.
RecvOtherFatal(c) ==
  /\ CanRecv(c)
  /\ used' = used \cup {c}
  /\ nreq' = [nreq EXCEPT ![c] = @ + 1]
  /\ Commit(CloseHandler(SendTo(Cur, c, Frame("pong", nreq[c] + 1, NoId, 0, 0)), c))
  /\ UNCHANGED <<tasks, wq, turn, limit, hist>>

\* default: any other data.type is answered with a pong that echoes reqId
RecvOther(c) ==
  /\ CanRecv(c)
  /\ used' = used \cup {c}
  /\ nreq' = [nreq EXCEPT ![c] = @ + 1]
  /\ Commit(SendTo(Cur, c, Frame("pong", nreq[c] + 1, NoId, 0, 0)))
  /\ UNCHANGED <<tasks, wq, turn, limit, hist>>

------------------------------------------------------------------------------
\* consume

NewConsumer(tr, x, o) ==
  [transport |-> tr, producerId |-> x, closed |-> FALSE, owner |-> o]

\* A variant that searches the producers maps of every peer of the server.
ProducerHoldersAnywhere(W, room, x) ==
  {o \in 1..Len(W.peers) : x \in W.peers[o].producers}

\* the peers of room that hold producerId in their producers map
ProducerHolders(W, room, x) == {o \in RoomPeers(W, room) : x \in W.peers[o].producers}

\* the worker can still consume producer x: it and its transport are open
ProducerAlive(W, x) ==
  ~W.producers[x].closed /\ ~W.transports[W.producers[x].transport].closed

\* case "consume" up to await peer.recvTransport.consume(...)
RecvConsume(c, x) ==
  /\ CanRecv(c)
  /\ used' = used \cup {c}
  /\ nreq' = [nreq EXCEPT ![c] = @ + 1]
  /\ LET t0 == [NewTask(c, "consume") EXCEPT !.prod = x]
         o == getPeerFromSocket(Cur, c)
         room == IF o = 0 THEN 0 ELSE getRoom(Cur, peerRoomMap[peers[o].id])
     IN IF o = 0 \/ (o # 0 /\ peers[o].recvTransport = 0)
          THEN /\ Commit(SendTo(Cur, c, ErrorFrame(t0.req, "Peer or transport not found")))
               /\ UNCHANGED <<tasks, wq, turn>>
          ELSE IF room = 0
          THEN /\ Commit(SendTo(Cur, c, ErrorFrame(t0.req, "Room not found")))
               /\ UNCHANGED <<tasks, wq, turn>>
          ELSE IF ProducerHolders(Cur, room, x) = {}
          THEN /\ Commit(SendTo(Cur, c, ErrorFrame(t0.req, "Producer not found")))
               /\ UNCHANGED <<tasks, wq, turn>>
          ELSE /\ tasks' = tasks \cup
                    {[t0 EXCEPT !.pc = "co_wait", !.peer = o, !.room = room,
                                !.tr = peers[o].recvTransport,
                                !.ok = /\ ~transports[peers[o].recvTransport].closed
                                       /\ ProducerAlive(Cur, x)]}
               /\ wq' = Append(wq, <<c, t0.req>>)
               /\ turn' = TurnAfter(tasks', c)
               /\ UNCHANGED <<rooms, peerSocketMap, peerRoomMap, roomObjs, peers,
                              transports, producers, consumers, ws, outbox>>
  /\ UNCHANGED <<limit, hist>>

\* case "consume" after the await: lines 675-720
ConsumeRest(W, t) ==
  LET k == Len(W.consumers) + 1
      W1 == [W EXCEPT !.consumers = Append(@, NewConsumer(t.tr, t.prod, t.peer)),
                      !.peers[t.peer].consumers =
                         {e \in @ : e.producerId # t.prod}
                           \cup {[producerId |-> t.prod, id |-> k]}]
  IN SendTo(W1, t.conn, Frame("consumeResponse", t.req, NoId, t.prod, k))

\* catch (error): ws.send({reqId, error: "Failed to create consumer: ..."})
ConsumeFailed(W, t) == SendTo(W, t.conn, ErrorFrame(t.req, "Failed to create consumer"))

\* peer.recvTransport.consume(...) resolves
ConsumerCreated(t) ==
  /\ t.pc = "co_wait"
  /\ Answers(t)
  /\ wq' = Tail(wq)
  /\ Commit(IF t.ok THEN ConsumeRest(Cur, t) ELSE ConsumeFailed(Cur, t))
  /\ tasks' = tasks \ {t}
  /\ turn' = TurnAfter(tasks', "worker")
  /\ UNCHANGED <<nreq, limit, hist, used>>

\* A variant whose handler closes the consumer but keeps the record.
OnConsumerProducerCloseKeepsRecord(W, k) == CloseConsumer(W, k)

\* consumer.on("producerclose"): the worker reports that the consumed producer
\* closed; the consumer closes and peer.consumers.delete(myProducer.id) runs
OnConsumerProducerClose(W, k) ==
  LET o == W.consumers[k].owner
  IN [W EXCEPT !.consumers[k].closed = TRUE,
               !.peers[o].consumers =
                  {e \in @ : e.producerId # W.consumers[k].producerId}]

ProducerCloseEvent(k) ==
  /\ CanResume
  /\ ~consumers[k].closed
  /\ ~transports[consumers[k].transport].closed
  /\ ~ProducerAlive(Cur, consumers[k].producerId)
  /\ Commit(OnConsumerProducerClose(Cur, k))
  /\ UNCHANGED <<tasks, nreq, limit, wq, turn, hist, used>>

------------------------------------------------------------------------------
\* pauseProducer / resumeProducer

\* case "pauseProducer" / "resumeProducer" up to await myProducer.producer.pause()
\* or resume(): the producer is looked up in the caller's own producers map
RecvPauseResume(c, x, type, pc) ==
  /\ CanRecv(c)
  /\ used' = used \cup {c}
  /\ nreq' = [nreq EXCEPT ![c] = @ + 1]
  /\ LET t0 == [NewTask(c, type) EXCEPT !.prod = x]
         o == getPeerFromSocket(Cur, c)
     IN IF o = 0
          THEN /\ Commit(SendTo(Cur, c, ErrorFrame(t0.req, "Peer not found")))
               /\ UNCHANGED <<tasks, wq, turn>>
          ELSE IF x \notin peers[o].producers
          THEN /\ Commit(SendTo(Cur, c, ErrorFrame(t0.req, "Producer not found")))
               /\ UNCHANGED <<tasks, wq, turn>>
          ELSE /\ tasks' = tasks \cup
                    {[t0 EXCEPT !.pc = pc, !.peer = o, !.ok = ~producers[x].closed]}
               /\ wq' = Append(wq, <<c, t0.req>>)
               /\ turn' = TurnAfter(tasks', c)
               /\ UNCHANGED <<rooms, peerSocketMap, peerRoomMap, roomObjs, peers,
                              transports, producers, consumers, ws, outbox>>
  /\ UNCHANGED <<limit, hist>>

RecvPauseProducer(c, x) == RecvPauseResume(c, x, "pauseProducer", "pa_wait")

RecvResumeProducer(c, x) == RecvPauseResume(c, x, "resumeProducer", "re_wait")

\* A variant whose resume branch was copied from pause: it sets paused = true.
PauseResumeRestSetsTrue(W, t, flag) ==
  IF t.ok
    THEN SendTo([W EXCEPT !.producers[t.prod].paused = flag,
                          !.producers[t.prod].recPaused = TRUE],
                t.conn,
                Frame(IF flag THEN "pauseProducerResponse" ELSE "resumeProducerResponse",
                      t.req, NoId, t.prod, 0))
    ELSE Rejected(W, t)

\* after the await: myProducer.paused = true / false on the record the handler
\* looked up, then the response; a rejected call goes to the catch
PauseResumeRest(W, t, flag) ==
  IF t.ok
    THEN SendTo([W EXCEPT !.producers[t.prod].paused = flag,
                          !.producers[t.prod].recPaused = flag],
                t.conn,
                Frame(IF flag THEN "pauseProducerResponse" ELSE "resumeProducerResponse",
                      t.req, NoId, t.prod, 0))
    ELSE Rejected(W, t)

\* myProducer.producer.pause() settles
ProducerPaused(t) ==
  /\ t.pc = "pa_wait"
  /\ Answers(t)
  /\ wq' = Tail(wq)
  /\ Commit(PauseResumeRest(Cur, t, TRUE))
  /\ tasks' = tasks \ {t}
  /\ turn' = TurnAfter(tasks', "worker")
  /\ UNCHANGED <<nreq, limit, hist, used>>

\* myProducer.producer.resume() settles
ProducerResumed(t) ==
  /\ t.pc = "re_wait"
  /\ Answers(t)
  /\ wq' = Tail(wq)
  /\ Commit(PauseResumeRest(Cur, t, FALSE))
  /\ tasks' = tasks \ {t}
  /\ turn' = TurnAfter(tasks', "worker")
  /\ UNCHANGED <<nreq, limit, hist, used>>

------------------------------------------------------------------------------
\* Frames the switch has no case for, and frames that do not parse

\* data.type = "setProducerMuted": the switch has no such case; the frame is
\* handled by default
RecvSetProducerMuted(c, x, muted) == RecvOther(c)

\* data.type = "closeProducer": the switch has no such case; the frame is
\* handled by default
RecvCloseProducer(c, x) == RecvOther(c)

\* A variant for which a frame that does not parse is fatal: it sends the
\* error and then closes the connection and its peer.
RecvInvalidJsonFatal(c) ==
  /\ CanRecv(c)
  /\ used' = used \cup {c}
  /\ nreq' = [nreq EXCEPT ![c] = @ + 1]
  /\ Commit(CloseHandler([SendTo(Cur, c, ErrorFrame(0, "Invalid JSON")) EXCEPT
                            !.ws[c] = FALSE], c))
  /\ UNCHANGED <<tasks, wq, turn, limit, hist>>

\* JSON.parse throws: ws.send({error: "Invalid JSON"}); return.  The frame has
\* no reqId.
RecvInvalidJson(c) ==
  /\ CanRecv(c)
  /\ used' = used \cup {c}
  /\ nreq' = [nreq EXCEPT ![c] = @ + 1]
  /\ Commit(SendTo(Cur, c, ErrorFrame(0, "Invalid JSON")))
  /\ UNCHANGED <<tasks, wq, turn, limit, hist>>

------------------------------------------------------------------------------
\* The server

Init ==
  /\ rooms = [r \in RoomIds |-> 0]
  /\ peerSocketMap = [c \in Conns |-> NoId]
  /\ peerRoomMap = [p \in PeerIds |-> NoId]
  /\ roomObjs = <<>>
  /\ peers = <<>>
  /\ transports = <<>>
  /\ producers = <<>>
  /\ consumers = <<>>
  /\ ws = [c \in Conns |-> TRUE]
  /\ outbox = [c \in Conns |-> <<>>]
  /\ tasks = {}
  /\ nreq = [c \in Conns |-> 0]
  /\ limit = MaxReq
  /\ wq = <<>>
  /\ turn = "idle"
  /\ hist = 0
  /\ used = {}

\* The continuations of the handlers and the worker's events.
Continue ==
  \/ \E t \in tasks : RouterCreated(t)
  \/ \E t \in tasks : ObserverCreated(t)
  \/ \E t \in tasks : CreateRoomRespond(t)
  \/ \E t \in tasks : JoinCallsCreatePeer(t)
  \/ \E t \in tasks : CreatePeerAttaches(t)
  \/ \E t \in tasks : JoinRoomFinish(t)

Media ==
  \/ \E t \in tasks : TransportCreated(t)
  \/ \E t \in tasks : ProducerCreated(t)
  \/ \E t \in tasks : ConsumerCreated(t)
  \/ \E k \in 1..Len(consumers) : ProducerCloseEvent(k)

\* Rooms and peers: any connection may create or join any room under any peerId.
Next ==
  \/ \E c \in Conns, r \in RoomIds : RecvCreateRoom(c, r)
  \/ \E c \in Conns, r \in RoomIds, p \in PeerIds : RecvJoinRoom(c, r, p)
  \/ \E c \in Conns : Close(c)
  \/ Continue

Spec == Init /\ [][Next]_vars

------------------------------------------------------------------------------
\* Media: the run starts in the state the server is in after c1 joined room r1
\* as p1 and then c2 joined it as p2, and the two connections set up
\* transports, produce and consume.

Fresh ==
  [rooms |-> [r \in RoomIds |-> 0],
   peerSocketMap |-> [c \in Conns |-> NoId],
   peerRoomMap |-> [p \in PeerIds |-> NoId],
   roomObjs |-> <<>>, peers |-> <<>>, transports |-> <<>>, producers |-> <<>>,
   consumers |-> <<>>, ws |-> [c \in Conns |-> TRUE],
   outbox |-> [c \in Conns |-> <<>>]]

JoinTask(c, peerId, o) ==
  [req |-> 1, conn |-> c, type |-> "joinRoom", pc |-> "cp_ret", ctx |-> "peer",
   roomId |-> "r1", peerId |-> peerId, ret |-> 1, room |-> 1, router |-> 1,
   peer |-> o, dir |-> NoId, kind |-> NoId, prod |-> 0, tr |-> 0, ok |-> TRUE]

TwoJoined ==
  LET W1 == [Fresh EXCEPT !.roomObjs = <<[NewRoomObj("r1") EXCEPT !.observer = "open"]>>,
                          !.rooms["r1"] = 1]
      W2 == JoinRoomRest(AttachPeer(W1, 1, "r1", "p1", "c1"), JoinTask("c1", "p1", 1))
  IN JoinRoomRest(AttachPeer(W2, 1, "r1", "p2", "c2"), JoinTask("c2", "p2", 2))

InitMedia ==
  /\ rooms = TwoJoined.rooms
  /\ peerSocketMap = TwoJoined.peerSocketMap
  /\ peerRoomMap = TwoJoined.peerRoomMap
  /\ roomObjs = TwoJoined.roomObjs
  /\ peers = TwoJoined.peers
  /\ transports = TwoJoined.transports
  /\ producers = TwoJoined.producers
  /\ consumers = TwoJoined.consumers
  /\ ws = TwoJoined.ws
  /\ outbox = TwoJoined.outbox
  /\ tasks = {}
  /\ nreq = [c \in Conns |-> 1]
  /\ limit = 2 + MaxMedia
  /\ wq = <<>>
  /\ turn = "idle"
  /\ hist = 0
  /\ used = {"c1", "c2", "r1", "p1", "p2"}

\* The clients follow the protocol: a client asks to produce once it has a send
\* transport, and to consume a producer whose id it was sent (in a newProducer
\* or in its own produceResponse) once it has a recv transport.
MayProduce(c) ==
  getPeerFromSocket(Cur, c) # 0 /\ peers[getPeerFromSocket(Cur, c)].sendTransport # 0

MayConsume(c, x) ==
  /\ getPeerFromSocket(Cur, c) # 0
  /\ peers[getPeerFromSocket(Cur, c)].recvTransport # 0
  /\ \E i \in 1..Len(outbox[c]) :
        outbox[c][i].t \in {"newProducer", "produceResponse"} /\ outbox[c][i].prod = x

NextMedia ==
  \/ \E c \in Conns, dir \in Directions : RecvCreateTransport(c, dir)
  \/ \E c \in Conns, kind \in Kinds : MayProduce(c) /\ RecvProduce(c, kind)
  \/ \E c \in Conns, x \in 1..Len(producers) : MayConsume(c, x) /\ RecvConsume(c, x)
  \/ \E c \in Conns : Close(c)
  \/ Media

SpecMedia == InitMedia /\ [][NextMedia]_vars

\* The worker's responses and events are eventually delivered.
SpecMediaFair == SpecMedia /\ WF_vars(Media)

------------------------------------------------------------------------------
\* Joining and producing: the connections join room r1, each once, create send
\* transports and produce, in any interleaving.

MaxJoin == 6

InitJoin ==
  /\ rooms = Fresh.rooms
  /\ peerSocketMap = Fresh.peerSocketMap
  /\ peerRoomMap = Fresh.peerRoomMap
  /\ roomObjs = Fresh.roomObjs
  /\ peers = Fresh.peers
  /\ transports = Fresh.transports
  /\ producers = Fresh.producers
  /\ consumers = Fresh.consumers
  /\ ws = Fresh.ws
  /\ outbox = Fresh.outbox
  /\ tasks = {}
  /\ nreq = [c \in Conns |-> 0]
  /\ limit = MaxJoin
  /\ wq = <<>>
  /\ turn = "idle"
  /\ hist = 0
  /\ used = {}

\* A client sends joinRoom once, as the first request of its connection.
MayJoin(c) == nreq[c] = 0

NextJoin ==
  \/ \E c \in Conns, p \in PeerIds : MayJoin(c) /\ RecvJoinRoom(c, "r1", p)
  \/ \E c \in Conns : RecvCreateTransport(c, "send")
  \/ \E c \in Conns, kind \in Kinds : MayProduce(c) /\ RecvProduce(c, kind)
  \/ \E c \in Conns : Close(c)
  \/ \E t \in tasks : RouterCreated(t)
  \/ \E t \in tasks : ObserverCreated(t)
  \/ \E t \in tasks : JoinCallsCreatePeer(t)
  \/ \E t \in tasks : CreatePeerAttaches(t)
  \/ \E t \in tasks : JoinRoomFinish(t)
  \/ \E t \in tasks : TransportCreated(t)
  \/ \E t \in tasks : ProducerCreated(t)

SpecJoin == InitJoin /\ [][NextJoin]_vars

------------------------------------------------------------------------------
\* Requests of every type: of the two joined connections, c1 sends any request
\* at any time, whether or not its preconditions hold, and either may close.

MaxAny == 4

InitReq ==
  /\ rooms = TwoJoined.rooms
  /\ peerSocketMap = TwoJoined.peerSocketMap
  /\ peerRoomMap = TwoJoined.peerRoomMap
  /\ roomObjs = TwoJoined.roomObjs
  /\ peers = TwoJoined.peers
  /\ transports = TwoJoined.transports
  /\ producers = TwoJoined.producers
  /\ consumers = TwoJoined.consumers
  /\ ws = TwoJoined.ws
  /\ outbox = TwoJoined.outbox
  /\ tasks = {}
  /\ nreq = [c \in Conns |-> 1]
  /\ limit = 2 + MaxAny
  /\ wq = <<>>
  /\ turn = "idle"
  /\ hist = 0
  /\ used = {"c1", "c2", "r1", "p1", "p2"}

NextReq ==
  \/ \E r \in RoomIds : RecvCreateRoom("c1", r)
  \/ \E dir \in Directions : RecvCreateTransport("c1", dir)
  \/ \E dir \in Directions : RecvConnectTransport("c1", dir)
  \/ \E kind \in KindInputs : RecvProduce("c1", kind)
  \/ \E x \in 1..MaxAny : RecvConsume("c1", x)
  \/ RecvOther("c1")
  \/ \E c \in Conns : Close(c)
  \/ \E t \in tasks : RouterCreated(t)
  \/ \E t \in tasks : ObserverCreated(t)
  \/ \E t \in tasks : CreateRoomRespond(t)
  \/ \E t \in tasks : TransportCreated(t)
  \/ \E t \in tasks : TransportConnected(t)
  \/ \E t \in tasks : ProducerCreated(t)
  \/ \E t \in tasks : ConsumerCreated(t)

SpecReq == InitReq /\ [][NextReq]_vars

------------------------------------------------------------------------------
\* Producer control: the run starts with p1 (c1) and p2 (c2) in room r1, p1
\* holding a send transport and an audio producer; the connections send
\* producer-control frames, frames of other types and frames that do not parse.

MaxCtl == 3

\* The handler of request req of connection c, bound to peer object o of room 1.
BoundTask(c, o, req, type) ==
  [req |-> req, conn |-> c, type |-> type, pc |-> "start", ctx |-> "handler",
   roomId |-> NoId, peerId |-> NoId, ret |-> 0, room |-> 1, router |-> 0,
   peer |-> o, dir |-> NoId, kind |-> NoId, prod |-> 0, tr |-> 0, ok |-> TRUE]

\* TwoJoined after c1 created a send transport and produced audio on it.
OneProducing ==
  LET W1 == StoreTransport(TwoJoined,
              [BoundTask("c1", 1, 2, "createWebRtcTransport") EXCEPT !.dir = "send"])
  IN ProduceRest(W1, [BoundTask("c1", 1, 3, "produce") EXCEPT
                        !.kind = "audio", !.tr = 1])

InitCtl ==
  /\ rooms = OneProducing.rooms
  /\ peerSocketMap = OneProducing.peerSocketMap
  /\ peerRoomMap = OneProducing.peerRoomMap
  /\ roomObjs = OneProducing.roomObjs
  /\ peers = OneProducing.peers
  /\ transports = OneProducing.transports
  /\ producers = OneProducing.producers
  /\ consumers = OneProducing.consumers
  /\ ws = OneProducing.ws
  /\ outbox = OneProducing.outbox
  /\ tasks = {}
  /\ nreq = [c \in Conns |-> IF c = "c1" THEN 3 ELSE 1]
  /\ limit = 4 + MaxCtl
  /\ wq = <<>>
  /\ turn = "idle"
  /\ hist = 0
  /\ used = {"c1", "c2", "r1", "p1", "p2"}

NextCtl ==
  \/ \E c \in Conns, x \in 1..2, m \in BOOLEAN : RecvSetProducerMuted(c, x, m)
  \/ \E c \in Conns, x \in 1..2 : RecvCloseProducer(c, x)
  \/ \E c \in Conns, x \in 1..2 : RecvPauseProducer(c, x)
  \/ \E c \in Conns, x \in 1..2 : RecvResumeProducer(c, x)
  \/ \E c \in Conns : RecvOther(c)
  \/ \E c \in Conns : RecvInvalidJson(c)
  \/ \E c \in Conns, kind \in Kinds : MayProduce(c) /\ RecvProduce(c, kind)
  \/ \E c \in Conns : Close(c)
  \/ \E t \in tasks : ProducerCreated(t)
  \/ \E t \in tasks : ProducerPaused(t)
  \/ \E t \in tasks : ProducerResumed(t)

SpecCtl == InitCtl /\ [][NextCtl]_vars

------------------------------------------------------------------------------
\* Requests without a peer: the run starts with p1 (c1) alone in room r1,
\* holding both transports and an audio producer, and c2 connected but not
\* joined.  Either connection sends any request at any time, joins of r1 under
\* either peer id included, and either may close.

MaxLost == 3

LoneProducer ==
  LET W0 == [Fresh EXCEPT !.roomObjs = <<[NewRoomObj("r1") EXCEPT !.observer = "open"]>>,
                          !.rooms["r1"] = 1]
      W1 == JoinRoomRest(AttachPeer(W0, 1, "r1", "p1", "c1"), JoinTask("c1", "p1", 1))
      W2 == StoreTransport(W1,
              [BoundTask("c1", 1, 2, "createWebRtcTransport") EXCEPT !.dir = "send"])
      W3 == ProduceRest(W2, [BoundTask("c1", 1, 3, "produce") EXCEPT
                               !.kind = "audio", !.tr = 1])
  IN StoreTransport(W3,
       [BoundTask("c1", 1, 4, "createWebRtcTransport") EXCEPT !.dir = "recv"])

InitLost ==
  /\ rooms = LoneProducer.rooms
  /\ peerSocketMap = LoneProducer.peerSocketMap
  /\ peerRoomMap = LoneProducer.peerRoomMap
  /\ roomObjs = LoneProducer.roomObjs
  /\ peers = LoneProducer.peers
  /\ transports = LoneProducer.transports
  /\ producers = LoneProducer.producers
  /\ consumers = LoneProducer.consumers
  /\ ws = LoneProducer.ws
  /\ outbox = LoneProducer.outbox
  /\ tasks = {}
  /\ nreq = [c \in Conns |-> IF c = "c1" THEN 4 ELSE 0]
  /\ limit = 4 + MaxLost
  /\ wq = <<>>
  /\ turn = "idle"
  /\ hist = 0
  /\ used = {"c1", "r1", "p1"}

NextLost ==
  \/ \E c \in Conns, p \in PeerIds : RecvJoinRoom(c, "r1", p)
  \/ \E c \in Conns, dir \in Directions : RecvCreateTransport(c, dir)
  \/ \E c \in Conns, dir \in Directions : RecvConnectTransport(c, dir)
  \/ \E c \in Conns : RecvProduce(c, "audio")
  \/ \E c \in Conns : RecvConsume(c, 1)
  \/ \E c \in Conns : RecvPauseProducer(c, 1)
  \/ \E c \in Conns : RecvResumeProducer(c, 1)
  \/ \E c \in Conns : Close(c)
  \/ \E t \in tasks : RouterCreated(t)
  \/ \E t \in tasks : ObserverCreated(t)
  \/ \E t \in tasks : JoinCallsCreatePeer(t)
  \/ \E t \in tasks : CreatePeerAttaches(t)
  \/ \E t \in tasks : JoinRoomFinish(t)
  \/ \E t \in tasks : TransportCreated(t)
  \/ \E t \in tasks : TransportConnected(t)
  \/ \E t \in tasks : ProducerCreated(t)
  \/ \E t \in tasks : ConsumerCreated(t)
  \/ \E t \in tasks : ProducerPaused(t)
  \/ \E t \in tasks : ProducerResumed(t)

SpecLost == InitLost /\ [][NextLost]_vars

------------------------------------------------------------------------------
\* Two rooms: the run starts with p1 (c1) alone in room r1 and p2 (c2) alone in
\* room r2, p2 holding a send transport and an audio producer.  The connections
\* create transports, produce and ask to consume any producer that exists.

MaxRooms == 3

TwoRooms ==
  LET W0 == [Fresh EXCEPT !.roomObjs = <<[NewRoomObj("r1") EXCEPT !.observer = "open"],
                                         [NewRoomObj("r2") EXCEPT !.observer = "open"]>>,
                          !.rooms["r1"] = 1, !.rooms["r2"] = 2]
      W1 == JoinRoomRest(AttachPeer(W0, 1, "r1", "p1", "c1"), JoinTask("c1", "p1", 1))
      W2 == JoinRoomRest(AttachPeer(W1, 2, "r2", "p2", "c2"),
                         [JoinTask("c2", "p2", 2) EXCEPT
                            !.roomId = "r2", !.ret = 2, !.room = 2, !.router = 2])
      W3 == StoreTransport(W2,
              [BoundTask("c2", 2, 2, "createWebRtcTransport") EXCEPT
                 !.dir = "send", !.room = 2])
  IN ProduceRest(W3, [BoundTask("c2", 2, 3, "produce") EXCEPT
                        !.kind = "audio", !.tr = 1, !.room = 2])

InitRooms ==
  /\ rooms = TwoRooms.rooms
  /\ peerSocketMap = TwoRooms.peerSocketMap
  /\ peerRoomMap = TwoRooms.peerRoomMap
  /\ roomObjs = TwoRooms.roomObjs
  /\ peers = TwoRooms.peers
  /\ transports = TwoRooms.transports
  /\ producers = TwoRooms.producers
  /\ consumers = TwoRooms.consumers
  /\ ws = TwoRooms.ws
  /\ outbox = TwoRooms.outbox
  /\ tasks = {}
  /\ nreq = [c \in Conns |-> IF c = "c2" THEN 3 ELSE 1]
  /\ limit = 4 + MaxRooms
  /\ wq = <<>>
  /\ turn = "idle"
  /\ hist = 0
  /\ used = {"c1", "c2", "r1", "r2", "p1", "p2"}

NextRooms ==
  \/ \E c \in Conns, dir \in Directions : RecvCreateTransport(c, dir)
  \/ \E c \in Conns, kind \in Kinds : MayProduce(c) /\ RecvProduce(c, kind)
  \/ \E c \in Conns, x \in 1..Len(producers) : RecvConsume(c, x)
  \/ \E c \in Conns : Close(c)
  \/ \E t \in tasks : TransportCreated(t)
  \/ \E t \in tasks : ProducerCreated(t)
  \/ \E t \in tasks : ConsumerCreated(t)

SpecRooms == InitRooms /\ [][NextRooms]_vars

------------------------------------------------------------------------------
\* Worker rejections: the worker may also reject createRouter and
\* createAudioLevelObserver.  createRoom has no try block, so the rejection
\* propagates to the catch of the message handler, which answers with the error.

MaxFail == 2

\* globalWorker.createRouter(...) rejects
RouterRejected(t) ==
  /\ t.pc = "cr_router"
  /\ Answers(t)
  /\ wq' = Tail(wq)
  /\ Commit(Rejected(Cur, t))
  /\ tasks' = tasks \ {t}
  /\ turn' = TurnAfter(tasks', "worker")
  /\ UNCHANGED <<nreq, limit, hist, used>>

\* router.createAudioLevelObserver(...) rejects: the router of line 139 is
\* neither closed nor registered
ObserverRejected(t) ==
  /\ t.pc = "cr_observer"
  /\ Answers(t)
  /\ wq' = Tail(wq)
  /\ Commit(Rejected(Cur, t))
  /\ tasks' = tasks \ {t}
  /\ turn' = TurnAfter(tasks', "worker")
  /\ UNCHANGED <<nreq, limit, hist, used>>

InitFail ==
  /\ rooms = Fresh.rooms
  /\ peerSocketMap = Fresh.peerSocketMap
  /\ peerRoomMap = Fresh.peerRoomMap
  /\ roomObjs = Fresh.roomObjs
  /\ peers = Fresh.peers
  /\ transports = Fresh.transports
  /\ producers = Fresh.producers
  /\ consumers = Fresh.consumers
  /\ ws = Fresh.ws
  /\ outbox = Fresh.outbox
  /\ tasks = {}
  /\ nreq = [c \in Conns |-> 0]
  /\ limit = MaxFail
  /\ wq = <<>>
  /\ turn = "idle"
  /\ hist = 0
  /\ used = {}

NextFail ==
  \/ Next
  \/ \E t \in tasks : RouterRejected(t)
  \/ \E t \in tasks : ObserverRejected(t)

SpecFail == InitFail /\ [][NextFail]_vars

------------------------------------------------------------------------------
\* Consuming: the run starts with p1 (c1) and p2 (c2) in room r1, p1 producing
\* audio on its send transport and p2 holding a recv transport.  Either
\* connection creates transports and asks to consume any producer, any number
\* of times, and either may close.

MaxWatch == 3

\* OneProducing after c2 created a recv transport.
OneWatching ==
  StoreTransport(OneProducing,
    [BoundTask("c2", 2, 2, "createWebRtcTransport") EXCEPT !.dir = "recv"])

InitWatch ==
  /\ rooms = OneWatching.rooms
  /\ peerSocketMap = OneWatching.peerSocketMap
  /\ peerRoomMap = OneWatching.peerRoomMap
  /\ roomObjs = OneWatching.roomObjs
  /\ peers = OneWatching.peers
  /\ transports = OneWatching.transports
  /\ producers = OneWatching.producers
  /\ consumers = OneWatching.consumers
  /\ ws = OneWatching.ws
  /\ outbox = OneWatching.outbox
  /\ tasks = {}
  /\ nreq = [c \in Conns |-> IF c = "c1" THEN 3 ELSE 2]
  /\ limit = 5 + MaxWatch
  /\ wq = <<>>
  /\ turn = "idle"
  /\ hist = 0
  /\ used = {"c1", "c2", "r1", "p1", "p2"}

NextWatch ==
  \/ \E c \in Conns, dir \in Directions : RecvCreateTransport(c, dir)
  \/ \E c \in Conns, x \in 1..Len(producers) : RecvConsume(c, x)
  \/ \E c \in Conns : Close(c)
  \/ \E t \in tasks : TransportCreated(t)
  \/ \E t \in tasks : ConsumerCreated(t)
  \/ \E k \in 1..Len(consumers) : ProducerCloseEvent(k)

SpecWatch == InitWatch /\ [][NextWatch]_vars

------------------------------------------------------------------------------
\* Joins racing with a departure: the run starts with the joinRoom of p1 (c1)
\* and the joinRoom of p2 (c2) for the absent room r1 both received and
\* awaiting the worker's createRouter.  Whatever closes, closes while these two
\* joins are in flight or after they were answered.  Either connection sends
\* further createRoom and joinRoom requests.

MaxRace == 1

\* The handler of the first request of c, joinRoom{r1, peerId}, at line 139.
JoinInFlight(c, peerId) ==
  [JoinTask(c, peerId, 0) EXCEPT !.pc = "cr_router", !.ctx = "join",
                                 !.ret = 0, !.room = 0, !.router = 0]

InitRace ==
  /\ rooms = Fresh.rooms
  /\ peerSocketMap = Fresh.peerSocketMap
  /\ peerRoomMap = Fresh.peerRoomMap
  /\ roomObjs = Fresh.roomObjs
  /\ peers = Fresh.peers
  /\ transports = Fresh.transports
  /\ producers = Fresh.producers
  /\ consumers = Fresh.consumers
  /\ ws = Fresh.ws
  /\ outbox = Fresh.outbox
  /\ tasks = {JoinInFlight("c1", "p1"), JoinInFlight("c2", "p2")}
  /\ nreq = [c \in Conns |-> 1]
  /\ limit = 2 + MaxRace
  /\ wq = <<Key(JoinInFlight("c1", "p1")), Key(JoinInFlight("c2", "p2"))>>
  /\ turn = "idle"
  /\ hist = 0
  /\ used = {"c1", "c2", "r1", "p1", "p2"}

SpecRace == InitRace /\ [][Next]_vars

------------------------------------------------------------------------------
\* Claims

RoomObjIds == 1..Len(roomObjs)
PeerObjs == 1..Len(peers)

\* The room objects that hold peer object o.
RoomsHolding(o) == {i \in RoomObjIds : roomObjs[i].peers[peers[o].id] = o}

\* The peer objects stored in the peers of a registered room.
Attached == UNION {RoomPeers(Cur, rooms[r]) : r \in {q \in RoomIds : rooms[q] # 0}}

\* C1: mapping coherence.  For every peer P stored in rooms[r].peers:
\* peerRoomMap[P.id] = r, peerSocketMap[P.ws] = P.id, and no other room holds a
\* peer with P's id or P's connection.
C1_MappingCoherence ==
  \A r \in RoomIds : rooms[r] # 0 =>
    \A o \in RoomPeers(Cur, rooms[r]) :
      /\ peerRoomMap[peers[o].id] = r
      /\ peerSocketMap[peers[o].ws] = peers[o].id
      /\ \A r2 \in RoomIds \ {r} : rooms[r2] # 0 =>
           \A o2 \in RoomPeers(Cur, rooms[r2]) :
             peers[o2].id # peers[o].id /\ peers[o2].ws # peers[o].ws

\* C2: a joinRoom whose peerId is already bound to a peer of the room is
\* rejected: the peer record attached under that id is left as it is, never
\* replaced by another record (only its own teardown removes it).
C2_PeerIdTaken ==
  [][\A i \in RoomObjIds : \A p \in PeerIds :
       roomObjs[i].peers[p] # 0 =>
         roomObjs'[i].peers[p] \in {0, roomObjs[i].peers[p]}]_vars

\* The peer objects whose teardown (cleanupPeer) has completed.
TornDown == {o \in PeerObjs : peers[o].torn > 0}

\* C3: resource closure.  Once the teardown of a peer has completed, every
\* transport, producer and consumer created for that peer before the teardown
\* is closed, a replaced transport or consumer included.
C3_ResourceClosure ==
  \A o \in TornDown :
    /\ \A t \in 1..Len(transports) :
         transports[t].owner = o /\ t <= peers[o].tornAt[1] => transports[t].closed
    /\ \A x \in 1..Len(producers) :
         producers[x].owner = o /\ x <= peers[o].tornAt[2] => producers[x].closed
    /\ \A k \in 1..Len(consumers) :
         consumers[k].owner = o /\ k <= peers[o].tornAt[3] => consumers[k].closed

\* C4: room liveness.  Whenever no request handler is mid-flight, a room is
\* registered if and only if it holds a peer: no registered room has zero
\* peers, and no room that holds a peer is missing from the registry.
C4_RoomLiveness ==
  tasks = {} =>
    /\ \A r \in RoomIds : rooms[r] # 0 => RoomPeers(Cur, rooms[r]) # {}
    /\ \A i \in RoomObjIds : RoomPeers(Cur, i) # {} => rooms[roomObjs[i].id] # 0

\* C5: empty-room collapse.  The step that removes the last peer of a room
\* closes the room's router and observer and unregisters the room; the
\* registry never maps an id to a room whose router is closed, so a later
\* joinRoom builds a new router; and a peer is only ever attached to a room
\* whose router is open.
C5_EmptyRoomCollapse ==
  [][/\ \A i \in RoomObjIds :
          RoomPeers(Cur, i) # {} /\ RoomPeers(Cur', i) = {} =>
            /\ roomObjs'[i].routerClosed
            /\ roomObjs'[i].observer = "closed"
            /\ \A r \in RoomIds : rooms'[r] # i
     /\ \A r \in RoomIds : rooms'[r] # 0 => ~roomObjs'[rooms'[r]].routerClosed
     /\ \A i \in RoomObjIds : \A p \in PeerIds :
          roomObjs'[i].peers[p] \notin {0, roomObjs[i].peers[p]} =>
            ~roomObjs'[i].routerClosed]_vars

\* A room collapsed and the same id is registered again, on another router.
C5_Witness ==
  \E r \in RoomIds : \E i \in RoomObjIds :
    /\ rooms[r] # 0 /\ rooms[r] # i
    /\ roomObjs[i].id = r /\ roomObjs[i].routerClosed /\ roomObjs[i].observer = "closed"
    /\ RoomPeers(Cur, rooms[r]) # {}

\* C6: createRoom is idempotent under concurrency.  For one room id there is
\* never more than one open router: concurrent createRoom / joinRoom requests
\* for an absent id create a single router.
C6_OneRouterPerRoom ==
  \A i \in RoomObjIds : \A j \in RoomObjIds :
    (i # j /\ roomObjs[i].id = roomObjs[j].id) =>
      roomObjs[i].routerClosed \/ roomObjs[j].routerClosed

\* C7: a joinRoom that races with a createRoom for the same id observes the
\* same room.  Once both have completed, every room object that holds a peer
\* is the object the registry maps its id to.
C7_JoinSeesRegisteredRoom ==
  tasks = {} =>
    \A i \in RoomObjIds : RoomPeers(Cur, i) # {} => rooms[roomObjs[i].id] = i

\* C8: disconnect cleanup.  Once a connection has closed and none of its
\* request handlers is in flight, peerSocketMap has no entry for it and no
\* room holds a peer bound to it, whose id peerRoomMap would still map.
C8_DisconnectCleanup ==
  \A c \in Conns :
    (~ws[c] /\ \A t \in tasks : t.conn # c) =>
      /\ peerSocketMap[c] = NoId
      /\ \A o \in PeerObjs : peers[o].ws = c => RoomsHolding(o) = {}

\* The frames of kind t about peer object o in the sequence of frames q.
FramesAbout(q, t, o) == {k \in 1..Len(q) : q[k].t = t /\ q[k].obj = o}

\* C9: teardown order.  On every connection, each producerClosed of a leaving
\* peer precedes that peer's peerLeft: every producer the peer held at its
\* teardown was announced closed before the peerLeft, and none is announced
\* after it.  After the teardown the peer's producers, consumers and its send
\* and recv transport are closed and no room holds the peer.
C9_TeardownOrder ==
  /\ \A c \in Conns : \A k \in 1..Len(outbox[c]) :
       outbox[c][k].t = "peerLeft" =>
         LET o == outbox[c][k].obj
         IN /\ \A x \in peers[o].producers : x <= peers[o].tornAt[2] =>
                 \E j \in 1..(k - 1) :
                   /\ outbox[c][j].t = "producerClosed"
                   /\ outbox[c][j].prod = x
                   /\ outbox[c][j].peer = peers[o].id
            /\ \A j \in FramesAbout(outbox[c], "producerClosed", o) : j < k
  /\ \A o \in TornDown :
       /\ \A x \in peers[o].producers : x <= peers[o].tornAt[2] => producers[x].closed
       /\ \A e \in peers[o].consumers : e.id <= peers[o].tornAt[3] => consumers[e.id].closed
       /\ \A t \in {peers[o].sendTransport, peers[o].recvTransport} \ {0} :
            t <= peers[o].tornAt[1] => transports[t].closed
       /\ RoomsHolding(o) = {}

\* A connection was sent the producerClosed of two producers of a peer and
\* then that peer's peerLeft.
C9_Witness ==
  \E c \in Conns : \E k \in 1..Len(outbox[c]) :
    /\ outbox[c][k].t = "peerLeft"
    /\ Cardinality({j \in FramesAbout(outbox[c], "producerClosed", outbox[c][k].obj) :
                      j < k}) = 2

\* C10: cleanupPeer executes once per peer.  A cleanupPeer invocation that
\* finds its peer already removed changes nothing; a peer that was torn down
\* is never torn down again, and no further peerLeft is sent for it; the step
\* that tears a peer down sends one peerLeft to each remaining peer of its
\* room whose connection is open.
C10_CleanupOnce ==
  [][/\ \A c \in Conns :
          (/\ ws[c] /\ ~ws'[c]
           /\ peerSocketMap[c] # NoId
           /\ CleanupTarget(Cur, peerSocketMap[c]) = 0)
            => Cur' = [Cur EXCEPT !.ws[c] = FALSE]
     /\ \A o \in TornDown : \A c \in Conns :
          /\ peers'[o].torn = 1
          /\ FramesAbout(outbox'[c], "peerLeft", o) = FramesAbout(outbox[c], "peerLeft", o)
     /\ \A o \in PeerObjs : (peers[o].torn = 0 /\ peers'[o].torn > 0) =>
          \A c \in Conns :
            Cardinality(FramesAbout(outbox'[c], "peerLeft", o)) =
              IF ws'[c]
                THEN Cardinality({q \in PeerObjs \ {o} :
                        peers[q].ws = c /\ RoomsHolding(q) \cap RoomsHolding(o) # {}})
                ELSE 0]_vars

\* A connection has closed whose cleanupPeer found the peer it names already
\* torn down, and another connection was sent that peer's one peerLeft.
C10_Witness ==
  /\ hist > 0
  /\ \E c \in Conns : \E o \in TornDown :
       /\ ~ws[c] /\ peerSocketMap[c] = peers[o].id
       /\ \E c2 \in Conns : Cardinality(FramesAbout(outbox[c2], "peerLeft", o)) = 1

\* The consumer records the rooms' peers hold: <<peer object, record>>.
ConsumerRecords == UNION {{<<o, e>> : e \in peers[o].consumers} : o \in PeerObjs}

\* C11: no self-consume.  No peer holds a consumer record or a consumer handle
\* whose upstream producer the same peer owns: a consume request that names one
\* of the caller's own producers creates no consumer.
C11_NoSelfConsume ==
  /\ \A k \in 1..Len(consumers) : producers[consumers[k].producerId].owner # consumers[k].owner
  /\ \A oe \in ConsumerRecords : producers[oe[2].producerId].owner # oe[1]

\* The peers of rooms that hold a consumer record for producer x.
Consuming(x) == {o \in PeerObjs : RoomsHolding(o) # {} /\ \E e \in peers[o].consumers : e.producerId = x}

\* C12: producer/consumer duality.  Every consumer record held by a peer of a
\* room references a producer that some peer of the same room holds in its
\* producers map.
C12_ConsumerHasProducer ==
  \A o \in PeerObjs : \A i \in RoomsHolding(o) : \A e \in peers[o].consumers :
    ProducerHolders(Cur, i, e.producerId) # {}

\* C13: once a producer is closed, every consumer record that references it is
\* eventually evicted from the consumers map of the peers of the rooms, given
\* that the worker's events are delivered: a closed producer stays closed, so
\* from some point on no peer of a room holds a record for a closed producer.
C13_ClosedProducerEvicted ==
  <>[](\A x \in 1..Len(producers) : producers[x].closed => Consuming(x) = {})

\* A consumer was closed by the close of its producer and its record is gone
\* from its peer, which is still in the room.
C13_Witness ==
  \E k \in 1..Len(consumers) :
    /\ consumers[k].closed /\ producers[consumers[k].producerId].closed
    /\ ~transports[consumers[k].transport].closed
    /\ RoomsHolding(consumers[k].owner) # {}
    /\ consumers[k].owner \notin Consuming(consumers[k].producerId)

\* The newProducer frames about producer x in the sequence of frames q.
NewProducerFrames(q, x) == {k \in 1..Len(q) : q[k].t = "newProducer" /\ q[k].prod = x}

\* The ids of the rooms peer object o is in: o was attached by a joinRoom for
\* that id and has not been removed.
RoomIdsOf(o) == {roomObjs[i].id : i \in RoomsHolding(o)}

\* C14: broadcast completeness.  The step that sends A's produceResponse sends
\* exactly one newProducer for the new producer to every peer B that is in A's
\* room at that moment and whose connection is open, and no newProducer for
\* that producer is sent at any other time.
C14_BroadcastOnce ==
  [][/\ Len(producers') > Len(producers) =>
          LET x == Len(producers')
              a == producers'[x].owner
          IN \A b \in PeerObjs \ {a} :
               RoomIdsOf(a) \cap RoomIdsOf(b) # {} =>
                 Cardinality(NewProducerFrames(outbox'[peers[b].ws], x)) =
                   IF ws[peers[b].ws] THEN 1 ELSE 0
     /\ \A x \in 1..Len(producers) : \A c \in Conns :
          NewProducerFrames(outbox'[c], x) = NewProducerFrames(outbox[c], x)]_vars

\* The producer ids of a joinRoomResponse frame.
Snapshot(f) == {e[1] : e \in f.prods}

\* C15: join snapshot and newProducer are mutually exclusive.  On every
\* connection, no producer listed in a joinRoomResponse is the subject of a
\* newProducer sent after that response.
C15_SnapshotThenNoNotice ==
  \A c \in Conns : \A k \in 1..Len(outbox[c]) :
    outbox[c][k].t = "joinRoomResponse" =>
      \A j \in (k + 1)..Len(outbox[c]) :
        outbox[c][j].t = "newProducer" => outbox[c][j].prod \notin Snapshot(outbox[c][k])

\* A joiner found a producer in its snapshot and was later sent a newProducer
\* for another producer.
C15_Witness ==
  \E c \in Conns : \E k \in 1..Len(outbox[c]) :
    /\ outbox[c][k].t = "joinRoomResponse"
    /\ Snapshot(outbox[c][k]) # {}
    /\ \E j \in (k + 1)..Len(outbox[c]) : outbox[c][j].t = "newProducer"

\* The joinRoomResponse the step sends on connection c, if it sends one.
JoinResponseSent(c) ==
  /\ Len(outbox'[c]) = Len(outbox[c]) + 1
  /\ outbox'[c][Len(outbox'[c])].t = "joinRoomResponse"

\* C16: the join snapshot.  The producers of a joinRoomResponse are exactly the
\* open producers owned by the other peers of the joiner's room, each with its
\* owner's peerId, and its peers are exactly the other peers of the room; the
\* joiner and the producers owned under the joiner's peerId are not listed.
C16_SnapshotExact ==
  [][\A c \in Conns : JoinResponseSent(c) =>
       LET f == outbox'[c][Len(outbox'[c])]
           others == {o \in PeerObjs :
                        roomObjs[f.obj].id \in RoomIdsOf(o) /\ peers[o].id # f.peer}
       IN /\ f.prods = {<<x, peers[producers[x].owner].id>> :
                          x \in {y \in 1..Len(producers) :
                                   ~producers[y].closed /\ producers[y].owner \in others}}
          /\ {e[1] : e \in f.peers} = {peers[o].id : o \in others}
          /\ f.peer \notin {e[1] : e \in f.peers}
          /\ f.peer \notin {e[2] : e \in f.prods}]_vars

\* The producers peer object j was told of: in the snapshot of its join or in a
\* newProducer sent to its connection.
ToldOf(j) ==
  LET q == outbox[peers[j].ws]
  IN UNION {Snapshot(q[k]) : k \in {i \in 1..Len(q) :
                q[i].t = "joinRoomResponse" /\ q[i].peer = peers[j].id}}
       \cup {q[k].prod : k \in {i \in 1..Len(q) : q[i].t = "newProducer"}}

\* C17: a joiner never misses a producer.  A peer whose join has completed and
\* whose connection is open was told, in its snapshot or in a newProducer, of
\* every open producer held by another peer of its room.
C17_NeverMissed ==
  \A j \in PeerObjs :
    (peers[j].connectionState = "connected" /\ ws[peers[j].ws]) =>
      \A x \in 1..Len(producers) :
        (/\ ~producers[x].closed
         /\ producers[x].owner # j
         /\ x \in peers[producers[x].owner].producers
         /\ RoomIdsOf(producers[x].owner) \cap RoomIdsOf(j) # {}) => x \in ToldOf(j)

\* The frames on connection c that answer its request number r.
Responses(c, r) == {k \in 1..Len(outbox[c]) : outbox[c][k].req = r}

\* The handlers of connection c that have not finished.
InFlight(c) == {t \in tasks : t.conn = c}

C19_ArrivalOrder ==
  \A c \in Conns :
    /\ \A j \in 1..Len(outbox[c]) : \A k \in (j + 1)..Len(outbox[c]) :
         (outbox[c][j].req > 0 /\ outbox[c][k].req > 0) =>
           outbox[c][j].req < outbox[c][k].req
    /\ Cardinality(InFlight(c)) <= 1

\* C20: a handle whose worker call was in flight when its peer was torn down
\* is closed once the call has completed: no transport, producer or consumer
\* created for a peer after its teardown is open.
C20_InFlightHandleClosed ==
  \A o \in TornDown :
    /\ \A t \in 1..Len(transports) :
         transports[t].owner = o /\ t > peers[o].tornAt[1] => transports[t].closed
    /\ \A x \in 1..Len(producers) :
         producers[x].owner = o /\ x > peers[o].tornAt[2] => producers[x].closed
    /\ \A k \in 1..Len(consumers) :
         consumers[k].owner = o /\ k > peers[o].tornAt[3] => consumers[k].closed

\* The peer of connection c holds producer x in its producers map.
Owns(c, x) ==
  getPeerFromSocket(Cur, c) # 0 /\ x \in peers[getPeerFromSocket(Cur, c)].producers

\* The peers that share a room id with peer object a.
RoomMates(a) == {b \in PeerObjs \ {a} : RoomIdsOf(a) \cap RoomIdsOf(b) # {}}

\* The frames the step appends to the frames sent on connection c.
SentNow(c) == {k \in (Len(outbox[c]) + 1)..Len(outbox'[c]) : TRUE}

\* The step answers the request it receives on c with a success response.
AnswersSuccess(c) ==
  \E k \in SentNow(c) :
    outbox'[c][k].req = nreq'[c] /\ outbox'[c][k].t \notin {"error", "pong"}

\* C21: a setProducerMuted request for a producer the caller owns is answered
\* with success, and producerMuted for that producer is sent to every other
\* peer of the room whose connection is open and not to the caller.  (MyProducer
\* has no muted field, so the flag itself is not stated.)
C21_SetProducerMuted ==
  [][\A c \in Conns : \A x \in 1..Len(producers) : \A m \in BOOLEAN :
       (RecvSetProducerMuted(c, x, m) /\ Owns(c, x)) =>
         /\ AnswersSuccess(c)
         /\ \A b \in RoomMates(getPeerFromSocket(Cur, c)) :
              ws[peers[b].ws] =>
                \E k \in SentNow(peers[b].ws) :
                  /\ outbox'[peers[b].ws][k].t = "producerMuted"
                  /\ outbox'[peers[b].ws][k].prod = x
         /\ \A k \in SentNow(c) : outbox'[c][k].t # "producerMuted"]_vars

\* C22: a closeProducer request for a producer the caller owns closes the
\* producer, removes it from the caller's producers map, sends producerClosed
\* for it to the other peers of the room whose connection is open, and is
\* answered with success.
C22_CloseProducer ==
  [][\A c \in Conns : \A x \in 1..Len(producers) :
       (RecvCloseProducer(c, x) /\ Owns(c, x)) =>
         /\ producers'[x].closed
         /\ x \notin peers'[getPeerFromSocket(Cur, c)].producers
         /\ \A b \in RoomMates(getPeerFromSocket(Cur, c)) :
              ws[peers[b].ws] =>
                \E k \in SentNow(peers[b].ws) :
                  /\ outbox'[peers[b].ws][k].t = "producerClosed"
                  /\ outbox'[peers[b].ws][k].prod = x
         /\ AnswersSuccess(c)]_vars

\* The step leaves the registries, the rooms, the peers, the worker's handles
\* and the connections as they are, starts no worker call and sends nothing on
\* a connection other than c.
OnlyAnswers(c) ==
  /\ Cur' = [Cur EXCEPT !.outbox[c] = outbox'[c]]
  /\ tasks' = tasks
  /\ wq' = wq

\* C23: a request whose type the switch does not recognise is answered with one
\* frame of type pong that echoes its reqId, and the step that sends a pong
\* changes no room, peer, registry or worker-resource state.
C23_UnknownIsPong ==
  [][\A c \in Conns :
       /\ RecvOther(c) =>
            /\ outbox'[c] = Append(outbox[c], Frame("pong", nreq'[c], NoId, 0, 0))
            /\ OnlyAnswers(c)
       /\ (\E k \in SentNow(c) : outbox'[c][k].t = "pong") => OnlyAnswers(c)]_vars

\* A connection whose peer holds a producer was sent a pong.
C23_Witness ==
  \E c \in Conns :
    /\ \E x \in 1..Len(producers) : Owns(c, x)
    /\ \E k \in 1..Len(outbox[c]) : outbox[c][k].t = "pong"

\* The Invalid JSON error frames sent on connection c.
InvalidJsonFrames(c) == {k \in 1..Len(outbox[c]) : outbox[c][k].err = "Invalid JSON"}

\* Every frame received on c was answered or is being handled: a frame that
\* did not parse by an Invalid JSON error, a request by a frame echoing its
\* reqId unless its handler is still running.
AllProcessed(c) ==
  Cardinality({r \in 1..nreq[c] :
                 Responses(c, r) # {} \/ \E t \in InFlight(c) : t.req = r})
    + Cardinality(InvalidJsonFrames(c)) = nreq[c]

\* C24: a frame that is not valid JSON is answered with the error frame
\* {error} (no reqId) and nothing else happens: the connection stays open, its
\* peer is not torn down, no room, peer or registry state changes; and on an
\* open connection that received such a frame every other frame, earlier or
\* later, is still answered.
C24_InvalidJsonNotFatal ==
  [][\A c \in Conns :
       /\ RecvInvalidJson(c) =>
            /\ outbox'[c] = Append(outbox[c], ErrorFrame(0, "Invalid JSON"))
            /\ OnlyAnswers(c)
       /\ (ws'[c] /\ InvalidJsonFrames(c)' # {}) => AllProcessed(c)']_vars

\* A connection with a bound peer was sent Invalid JSON and, later, the
\* response of a request whose await the worker resumed.
C24_Witness ==
  \E c \in Conns :
    /\ ws[c] /\ getPeerFromSocket(Cur, c) # 0
    /\ \E k \in InvalidJsonFrames(c) : \E j \in (k + 1)..Len(outbox[c]) :
         outbox[c][j].t \in {"pauseProducerResponse", "produceResponse"}

\* Connection c has no bound peer: no peer was created for it (it has not
\* joined), or every peer created for it has been torn down.
NoBoundPeer(c) == \A o \in PeerObjs : peers[o].ws = c => peers[o].torn > 0

\* The step receives, on c, a request of one of the types that need a peer.
PeerRequest(c) ==
  \/ \E dir \in Directions : RecvCreateTransport(c, dir)
  \/ \E dir \in Directions : RecvConnectTransport(c, dir)
  \/ \E kind \in KindInputs : RecvProduce(c, kind)
  \/ \E x \in 1..(Len(producers) + 1) : RecvConsume(c, x)
  \/ \E x \in 1..(Len(producers) + 1) : RecvPauseProducer(c, x)
  \/ \E x \in 1..(Len(producers) + 1) : RecvResumeProducer(c, x)

\* The step answers the request it receives on c with {reqId, error} and does
\* nothing else.
ErrorOnly(c) ==
  /\ Len(outbox'[c]) = Len(outbox[c]) + 1
  /\ outbox'[c][Len(outbox'[c])].t = "error"
  /\ outbox'[c][Len(outbox'[c])].req = nreq'[c]
  /\ outbox'[c][Len(outbox'[c])].err # ""
  /\ OnlyAnswers(c)

\* C25: createWebRtcTransport, connectWebRtcTransport, produce, consume,
\* pauseProducer and resumeProducer on a connection without a bound peer, and
\* connectWebRtcTransport for a direction in which the connection's peer has no
\* transport, are answered with {reqId, error}, call the worker for nothing
\* and leave the rooms, the peers and the registries as they are.
C25_NoPeerIsError ==
  [][\A c \in Conns :
       /\ (NoBoundPeer(c) /\ PeerRequest(c)) => ErrorOnly(c)
       /\ \A dir \in Directions :
            (/\ RecvConnectTransport(c, dir)
             /\ getPeerFromSocket(Cur, c) # 0
             /\ (IF dir = "recv" THEN peers[getPeerFromSocket(Cur, c)].recvTransport
                 ELSE peers[getPeerFromSocket(Cur, c)].sendTransport) = 0)
              => ErrorOnly(c)]_vars

\* An open connection whose peer was torn down was answered Peer not found,
\* after it was answered Transport not found while it had a peer.
C25_Witness ==
  \E c \in Conns :
    /\ ws[c] /\ NoBoundPeer(c)
    /\ \E o \in PeerObjs : peers[o].ws = c
    /\ Len(outbox[c]) > 0
    /\ outbox[c][Len(outbox[c])].err \in {"Peer not found", "Peer or transport not found"}
    /\ \E k \in 1..Len(outbox[c]) : outbox[c][k].err = "Transport not found"

\* The peers of the room of peer object a, a included, by room id.
RoomOf(a) == {a} \cup RoomMates(a)

\* C26: a consume request from a peer that has a recv transport, for a
\* producerId that no peer of the caller's room holds (a producer that exists
\* only in another room included), is answered with {reqId, error: "Producer
\* not found"}, creates no consumer and changes no peer.
C26_ProducerNotFound ==
  [][\A c \in Conns : \A x \in 1..(Len(producers) + 1) :
       (/\ RecvConsume(c, x)
        /\ getPeerFromSocket(Cur, c) # 0
        /\ peers[getPeerFromSocket(Cur, c)].recvTransport # 0
        /\ \A b \in RoomOf(getPeerFromSocket(Cur, c)) : x \notin peers[b].producers)
         => /\ ErrorOnly(c)
            /\ outbox'[c][Len(outbox'[c])].err = "Producer not found"]_vars

\* A connection whose peer has a recv transport was answered Producer not
\* found while every producer was open and held by its owner in a room: the
\* producer it asked for is in the other room.
C26_Witness ==
  \E c \in Conns :
    /\ getPeerFromSocket(Cur, c) # 0
    /\ peers[getPeerFromSocket(Cur, c)].recvTransport # 0
    /\ \E k \in 1..Len(outbox[c]) : outbox[c][k].err = "Producer not found"
    /\ \A x \in 1..Len(producers) :
         /\ ~producers[x].closed
         /\ x \in peers[producers[x].owner].producers
         /\ RoomsHolding(producers[x].owner) # {}

\* C27: a produce request from a peer that has no send transport is answered
\* with {reqId, error}; no producer is created or recorded, nothing is added to
\* the audio-level observer, no newProducer is sent and the worker is not
\* called.
C27_ProduceNeedsTransport ==
  [][\A c \in Conns : \A kind \in KindInputs :
       (/\ RecvProduce(c, kind)
        /\ getPeerFromSocket(Cur, c) # 0
        /\ peers[getPeerFromSocket(Cur, c)].sendTransport = 0)
         => /\ ErrorOnly(c)
            /\ \A c2 \in Conns : \A k \in SentNow(c2) : outbox'[c2][k].t # "newProducer"
            /\ Len(producers') = Len(producers)]_vars

\* An open connection whose peer has a recv transport and no send transport
\* was last answered Peer or transport not found: the answer of a produce.
C27_Witness ==
  \E c \in Conns :
    /\ ws[c] /\ getPeerFromSocket(Cur, c) # 0
    /\ peers[getPeerFromSocket(Cur, c)].recvTransport # 0
    /\ peers[getPeerFromSocket(Cur, c)].sendTransport = 0
    /\ peers[getPeerFromSocket(Cur, c)].producers = {}
    /\ Len(outbox[c]) > 0
    /\ outbox[c][Len(outbox[c])].err = "Peer or transport not found"

\* C28: when the worker rejects createRouter or createAudioLevelObserver inside
\* a createRoom or joinRoom request, the request is answered with an error and
\* what it created is rolled back first: the router it created is closed, no
\* room is registered, no peer is attached and no registry entry changes.
C28_RejectionRollsBack ==
  [][\A t \in tasks :
       (RouterRejected(t) \/ ObserverRejected(t)) =>
         /\ ws[t.conn] => \E k \in SentNow(t.conn) :
              outbox'[t.conn][k].t = "error" /\ outbox'[t.conn][k].req = t.req
         /\ t.router # 0 => roomObjs'[t.router].routerClosed
         /\ rooms' = rooms
         /\ peerSocketMap' = peerSocketMap
         /\ peerRoomMap' = peerRoomMap
         /\ peers' = peers]_vars

\* The open transports of direction dir created for peer object o.
OpenTransports(o, dir) ==
  {t \in 1..Len(transports) :
     transports[t].owner = o /\ transports[t].dir = dir /\ ~transports[t].closed}

\* C29: a peer never has two open transports of the same direction: a repeated
\* createWebRtcTransport for a direction does not leave the earlier transport
\* of that direction open.
C29_OneTransportPerDirection ==
  \A o \in PeerObjs : \A dir \in Directions : Cardinality(OpenTransports(o, dir)) <= 1

\* The position of a connection state in New, Connecting, Connected,
\* Disconnected.
StateRank(st) ==
  CASE st = "new" -> 0 [] st = "connecting" -> 1 [] st = "connected" -> 2
    [] st = "disconnected" -> 3

\* C30: a peer starts in New and its connection state only moves forward
\* through Connecting (joinRoom received), Connected (joinRoomResponse sent)
\* and Disconnected; Disconnected is terminal; a peer whose connection has
\* closed is in state Disconnected, and no joinRoomResponse lists a peer whose
\* connection has closed as connecting or connected.
C30_ConnectionStates ==
  [][/\ \A o \in PeerObjs :
          /\ StateRank(peers'[o].connectionState) >= StateRank(peers[o].connectionState)
          /\ ~ws'[peers'[o].ws] => peers'[o].connectionState = "disconnected"
     /\ \A o \in (1..Len(peers')) \ PeerObjs :
          peers'[o].connectionState \in
            IF ws'[peers'[o].ws] THEN {"new", "connecting", "connected"}
            ELSE {"disconnected"}
     /\ \A c \in Conns : JoinResponseSent(c) =>
          \A o \in OtherPeers(Cur', outbox'[c][Len(outbox'[c])].obj,
                              outbox'[c][Len(outbox'[c])].peer) :
            ws'[peers'[o].ws]]_vars

\* The peer objects whose joinRoom handler completes in the step.
JoinedNow == {j \in PeerObjs : peers[j].connectionState = "new"
                                 /\ peers'[j].connectionState = "connected"}

\* C31: the step that completes the join of peer J sends exactly one
\* peerJoined for J to every other peer that is in J's room and whose
\* connection is open, and none to J's own connection; no peerJoined for J is
\* sent at any other time.
C31_PeerJoinedOnce ==
  [][/\ \A j \in JoinedNow :
          /\ \A b \in RoomMates(j) :
               peers[b].ws # peers[j].ws =>
                 Cardinality(FramesAbout(outbox'[peers[b].ws], "peerJoined", j)) =
                   IF ws[peers[b].ws] THEN 1 ELSE 0
          /\ FramesAbout(outbox'[peers[j].ws], "peerJoined", j) = {}
     /\ \A j \in PeerObjs \ JoinedNow : \A c \in Conns :
          FramesAbout(outbox'[c], "peerJoined", j) = FramesAbout(outbox[c], "peerJoined", j)]_vars

\* C32: a newProducer for producer x is never sent on the connection of the
\* peer that produced x, and when it is sent to another peer the produceResponse
\* for x has been sent to the producing connection (if that connection is
\* open): the notification never precedes the response.
C32_ResponseBeforeNotice ==
  [][\A c \in Conns : \A k \in SentNow(c) :
       outbox'[c][k].t = "newProducer" =>
         LET x == outbox'[c][k].prod
             pc == peers'[producers'[x].owner].ws
         IN /\ pc # c
            /\ ws[pc] => \E i \in 1..Len(outbox'[pc]) :
                 outbox'[pc][i].t = "produceResponse" /\ outbox'[pc][i].prod = x]_vars

\* A peer was sent newProducer for a producer whose owner, on another
\* connection, holds the produceResponse.
C32_Witness ==
  \E c \in Conns : \E k \in 1..Len(outbox[c]) :
    /\ outbox[c][k].t = "newProducer"
    /\ \E c2 \in Conns \ {c} : \E i \in 1..Len(outbox[c2]) :
         outbox[c2][i].t = "produceResponse" /\ outbox[c2][i].prod = outbox[c][k].prod

Notifications == {"peerJoined", "peerLeft", "newProducer", "producerClosed"}

PauseOrResume(c, x) == RecvPauseProducer(c, x) \/ RecvResumeProducer(c, x)

\* C34: the paused flag of every producer record equals the worker-side state
\* of its producer; the step that answers a pauseProducer (resumeProducer) of a
\* producer has set that producer's flag to true (false) and no other
\* producer's; a pauseProducer or resumeProducer from a peer that does not hold
\* the named producer is answered Producer not found and changes no flag.
C34_PauseResumeOwnOnly ==
  [][/\ \A x \in 1..Len(producers') : producers'[x].recPaused = producers'[x].paused
     /\ \A c \in Conns : \A k \in SentNow(c) :
          outbox'[c][k].t \in {"pauseProducerResponse", "resumeProducerResponse"} =>
            /\ producers'[outbox'[c][k].prod].recPaused =
                 (outbox'[c][k].t = "pauseProducerResponse")
            /\ peers[producers[outbox'[c][k].prod].owner].ws = c
            /\ \A y \in (1..Len(producers)) \ {outbox'[c][k].prod} :
                 producers'[y].recPaused = producers[y].recPaused
     /\ \A c \in Conns : \A x \in 1..(Len(producers) + 1) :
          (PauseOrResume(c, x) /\ getPeerFromSocket(Cur, c) # 0 /\ ~Owns(c, x)) =>
            /\ ErrorOnly(c)
            /\ outbox'[c][Len(outbox'[c])].err = "Producer not found"]_vars

\* A producer was paused and then resumed by its owner, and the other peer's
\* request for it was answered Producer not found.
C34_Witness ==
  \E x \in 1..Len(producers) :
    LET c == peers[producers[x].owner].ws
    IN /\ ~producers[x].recPaused
       /\ \E k \in 1..Len(outbox[c]) : \E j \in (k + 1)..Len(outbox[c]) :
            /\ outbox[c][k].t = "pauseProducerResponse" /\ outbox[c][k].prod = x
            /\ outbox[c][j].t = "resumeProducerResponse" /\ outbox[c][j].prod = x
       /\ \E c2 \in Conns \ {c} : \E k \in 1..Len(outbox[c2]) :
            outbox[c2][k].err = "Producer not found"

\* The producers that this step closes through "transportclose": open before,
\* closed after, on a peer that is not being torn down (cleanupPeer closes a
\* peer's producers itself, before the transports).
TransportClosedNow ==
  {x \in 1..Len(producers) :
     /\ ~producers[x].closed /\ producers'[x].closed
     /\ peers'[producers[x].owner].torn = 0}

\* C35: a producer closed by the close of its transport is evicted from its
\* peer's producers map and producerClosed is sent to the other open peers of
\* the room; a consumer's "producerclose" evicts exactly that consumer's record
\* from its peer's consumers map, never the record of another consumer.
C35_CloseEventsEvictOwnRecord ==
  [][/\ \A x \in TransportClosedNow :
          /\ x \notin peers'[producers[x].owner].producers
          /\ \A b \in RoomPeers(Cur, producers[x].room) \ {producers[x].owner} :
               ws[peers[b].ws] =>
                 \E i \in SentNow(peers[b].ws) :
                   /\ outbox'[peers[b].ws][i].t = "producerClosed"
                   /\ outbox'[peers[b].ws][i].prod = x
     /\ \A k \in 1..Len(consumers) :
          ProducerCloseEvent(k) =>
            peers'[consumers[k].owner].consumers =
              peers[consumers[k].owner].consumers
                \ {[producerId |-> consumers[k].producerId, id |-> k]}]_vars

\* C36: every open consumer is recorded in the consumers map of the peer that
\* created it, the map cleanupPeer iterates.
C36_OpenConsumersRecorded ==
  \A k \in 1..Len(consumers) :
    ~consumers[k].closed =>
      [producerId |-> consumers[k].producerId, id |-> k]
        \in peers[consumers[k].owner].consumers

\* C37: no dangling registry entries.  Whenever no request handler is
\* mid-flight, every entry of peerSocketMap and every entry of peerRoomMap
\* leads to a peer stored in the registered room under that id, and the peer
\* peerSocketMap[c] leads to is bound to connection c.
C37_NoDanglingEntries ==
  tasks = {} =>
    /\ \A p \in PeerIds :
         peerRoomMap[p] # NoId =>
           /\ rooms[peerRoomMap[p]] # 0
           /\ roomObjs[rooms[peerRoomMap[p]]].peers[p] # 0
    /\ \A c \in Conns :
         peerSocketMap[c] # NoId =>
           /\ getPeerFromSocket(Cur, c) # 0
           /\ peers[getPeerFromSocket(Cur, c)].ws = c

\* C38: the close of connection c tears down only the peer bound to c.  A peer
\* bound to another connection that is open keeps its place in its room and its
\* open transports, producers and consumers, is not torn down, and no peerLeft
\* is sent for it.
C38_CloseTearsDownOwnPeer ==
  [][\A c \in Conns : Close(c) =>
       \A o \in PeerObjs : (peers[o].ws # c /\ ws[peers[o].ws]) =>
         /\ peers'[o].torn = peers[o].torn
         /\ \A i \in RoomObjIds :
              roomObjs[i].peers[peers[o].id] = o => roomObjs'[i].peers[peers[o].id] = o
         /\ \A t \in 1..Len(transports) :
              transports[t].owner = o => transports'[t].closed = transports[t].closed
         /\ \A x \in 1..Len(producers) :
              producers[x].owner = o => producers'[x].closed = producers[x].closed
         /\ \A k \in 1..Len(consumers) :
              consumers[k].owner = o => consumers'[k].closed = consumers[k].closed
         /\ \A d \in Conns :
              FramesAbout(outbox'[d], "peerLeft", o) = FramesAbout(outbox[d], "peerLeft", o)]_vars

\* C39: a departed peer is not resurrected by a request that was in flight.  No
\* producer record is added to a peer whose teardown has run, and no connection
\* is sent newProducer for a peer after it was sent peerLeft for that peer.
C39_NoResurrection ==
  [][/\ \A o \in PeerObjs :
          peers[o].torn > 0 => peers'[o].producers \subseteq peers[o].producers
     /\ \A c \in Conns : \A k \in SentNow(c) :
          outbox'[c][k].t = "newProducer" =>
            FramesAbout(outbox[c], "peerLeft", outbox'[c][k].obj) = {}]_vars

\* A room object registered under roomId has been destroyed.
Destroyed(roomId) ==
  \E i \in RoomObjIds : roomObjs[i].id = roomId /\ roomObjs[i].routerClosed

====
